---------------------------- MODULE Spec2Model ----------------------------
(***************************************************************************)
(* A model of the serdapt adapters: the fixed-size array codec             *)
(* (src/array.rs), the byte-sequence codec (src/bytes.rs) and the          *)
(* adapters whose round trips the test-suite exercises.                    *)
(*                                                                         *)
(* A run of the model is one call of one adapter.  `mode` names the call   *)
(* that the run makes; the variables of the other calls keep their         *)
(* initial values.                                                         *)
(***************************************************************************)
EXTENDS Integers, Sequences, FiniteSets

(***************************************************************************)
(* Bounds of the model.                                                    *)
(***************************************************************************)
MaxN == 3
MaxLen == 4
MaxVal == 2
MaxRtLen == 2

VARIABLES
    mode,          \* which adapter call this run makes
    \* ---- Array<F>::deserialize_with ([T; N]) ----
    N,             \* the const generic N of the target array
    source,        \* what SeqAccess::next_element yields, in order; then None
    pos,           \* number of items the source has handed out
    requests,      \* number of next_element calls made
    items,         \* MaybeUninitArray::items, one slot per index
    count,         \* MaybeUninitArray::count
    slot,          \* position of items.iter_mut() inside fill
    pc,            \* position inside visit_seq / fill / drop
    result,        \* what visit_seq returns
    written,       \* element ids written to a slot, in order of writing
    bufferDrops,   \* per element id, destructor runs made by the buffer's Drop
    ownerDrops,    \* per element id, destructor runs made by the owner of the array
    uninitTouched, \* an uninitialized slot was read or dropped
    \* ---- Array<F>::serialize_with (&[T; N]) ----
    value,         \* the array to encode
    fFails,        \* the indices of the elements on which F::serialize_with fails
    sinkFails,     \* the sink call that fails: "none", "tuple" or "end"
    out,           \* the calls the encoder has received, in order
    idx,           \* position of value.iter()
    epc,           \* position inside serialize_with
    eresult,       \* what serialize_with returns
    \* ---- Bytes::deserialize_with ----
    bTarget,       \* the target type: "array" for [u8; N], "slice" for &[u8],
                   \* "ref_array" for &[u8; N], "cow", "vec", "byte_vec" (ByteVec)
    bN,            \* the const generic N of an array target
    bSource,       \* the shape and payload the decoder hands to the visitor
    bpc,           \* position inside deserialize_with
    bresult,       \* what deserialize_with returns
    brequests,     \* number of next_element calls made
    bHint,         \* what seq.size_hint() answers: <<>> for None, <<n>> for Some(n)
    bConvFails,    \* ByteVec: the target's TryFrom<Vec<u8>> rejects the buffer
    bstorage,      \* where the bytes of the returned value live
    bcapacity,     \* the capacity asked of Vec::with_capacity, or "none"
    bbuf,          \* the Vec being filled, or the buffer awaiting conversion
    bconversions,  \* number of try_into calls made
    \* ---- serialize_with followed by deserialize_with ----
    rtNode,        \* the adapter and the type it is applied to
    rtValue,       \* the value handed to serialize_with
    rtFormat,      \* the form in which the decoder hands byte blobs back
    wire,          \* what the encoder received
    decoded,       \* what deserialize_with returns
    rpc,           \* position inside the round trip
    \* ---- Mutex<F>, RwLock<F>, Cell<F>: serialize_with / deserialize_with ----
    wKind,         \* the wrapper: "Mutex", "RwLock", "RefCell" or "Cell"
    wOp,           \* the call made: "encode" or "decode"
    wExists,       \* the wrapper exists (before a decode it does not)
    wValue,        \* the value stored in the wrapper
    selfGuard,     \* the guard the calling thread holds since before the call:
                   \* "none", "write" (lock, write, borrow_mut) or "read" (read, borrow)
    holder,        \* another thread: "idle", "write", "read", or "waiting"
                   \* (blocked in lock() / write())
    poisoned,      \* a thread panicked while holding the lock exclusively
    innerFails,    \* the inner adapter F fails when called
    decodedInner,  \* the value F::deserialize_with yields when it succeeds
    encGuard,      \* the guard taken by serialize_with is alive
    wpc,           \* position inside the call
    attempts,      \* number of acquisition attempts serialize_with made
    innerCalls,    \* number of calls of the inner adapter
    snapshot,      \* the value handed to the inner adapter, or read after a decode
    wresult,       \* what the call returns
    \* ---- Fold<T, A, F>::deserialize_with ----
    fKind,         \* the accumulator type A: "i8" (integer addition) or "term"
                   \* (an Add that records its operands)
    fBuild,        \* overflow checks of the build: "debug" (on) or "release" (off)
    fSource,       \* what SeqAccess::next_element yields through F, in order; then None
    fRequests,     \* number of next_element calls made
    accum,         \* acc, the accumulator of try_fold
    fpc,           \* position inside visit_seq
    fresult,       \* what deserialize_with returns
    \* ---- HumanOr<F, G>, called any number of times ----
    hOp,           \* the call in progress: "serialize" or "deserialize"
    hHuman,        \* is_human_readable() of the format this call was handed
    hArg,          \* the value to encode, or what the format holds to decode
    hpc,           \* position inside the call
    hLog,          \* one entry per inner adapter invocation, in order
    \* ---- WithEncoding<F, T> ----
    weF,           \* the adapter F the binder is typed with
    weOp,          \* "into_inner", "serialize" or "deserialize"
    weValue,       \* the value handed to from
    weInput,       \* what the format holds, for a decode
    weSinkFails,   \* the serializer refuses what F writes
    binder,        \* the WithEncoding value: <<>> before it exists or once consumed
    wepc,          \* position inside the scenario
    weresult,      \* what the operation returns
    \* ---- TryFrom<T, F>::deserialize_with and TryInto<T, F>::serialize_with ----
    cvOp,          \* "try_from" (decode u32, convert to char) or "try_into"
                   \* (convert u32 to u8, encode)
    cvInput,       \* what the format holds, for a decode
    cvValue,       \* the value handed to the encode
    cvSinkFails,   \* the serializer refuses what F writes
    cvInnerCalls,  \* number of calls of F
    cvConversions, \* number of conversions attempted
    cvSink,        \* what has been written to the serializer, in order
    cvpc,          \* position inside the call
    cvresult,      \* what the call returns
    \* ---- SeqVisitor::visit_seq and MapVisitor::visit_map ----
    cKind,         \* "Seq" (collected into a Vec) or "Map" (into a BTreeMap)
    cSource,       \* what next_element / next_entry yields, in order; then None
    cRequests,     \* number of next_element / next_entry calls made
    collected,     \* the collection built so far
    cpc,           \* position inside collect()
    cresult,       \* what the visitor returns
    \* ---- adapter calls made one after another ----
    calls          \* one entry per serialize_with / deserialize_with call, in order

decVars == <<N, source, pos, requests, items, count, slot, pc, result,
             written, bufferDrops, ownerDrops, uninitTouched>>

encVars == <<value, fFails, sinkFails, out, idx, epc, eresult>>

bytVars == <<bTarget, bN, bSource, bpc, bresult, brequests, bHint, bConvFails,
             bstorage, bcapacity, bbuf, bconversions>>

rtVars == <<rtNode, rtValue, rtFormat, wire, decoded, rpc>>

snapVars == <<wKind, wOp, wExists, wValue, selfGuard, holder, poisoned,
              innerFails, decodedInner, encGuard, wpc, attempts, innerCalls,
              snapshot, wresult>>

foldVars == <<fKind, fBuild, fSource, fRequests, accum, fpc, fresult>>

humanVars == <<hOp, hHuman, hArg, hpc, hLog>>

weVars == <<weF, weOp, weValue, weInput, weSinkFails, binder, wepc, weresult>>

cvVars == <<cvOp, cvInput, cvValue, cvSinkFails, cvInnerCalls, cvConversions, cvSink,
            cvpc, cvresult>>

colVars == <<cKind, cSource, cRequests, collected, cpc, cresult>>

vars == <<mode, decVars, encVars, bytVars, rtVars, snapVars, foldVars, humanVars,
          weVars, cvVars, colVars, calls>>

\* What the steps of one kind of call leave alone: the call's kind and the
\* state of every other kind of call.
notDec == <<mode, encVars, bytVars, rtVars, snapVars, foldVars,
    humanVars, weVars, cvVars, colVars, calls>>
notEnc == <<mode, decVars, bytVars, rtVars, snapVars, foldVars,
    humanVars, weVars, cvVars, colVars, calls>>
notByt == <<mode, decVars, encVars, rtVars, snapVars, foldVars,
    humanVars, weVars, cvVars, colVars, calls>>
notRt == <<mode, decVars, encVars, bytVars, snapVars, foldVars,
    humanVars, weVars, cvVars, colVars, calls>>
notSnap == <<mode, decVars, encVars, bytVars, rtVars, foldVars,
    humanVars, weVars, cvVars, colVars, calls>>
notFold == <<mode, decVars, encVars, bytVars, rtVars, snapVars, humanVars, weVars,
    cvVars, colVars, calls>>
notHuman == <<mode, decVars, encVars, bytVars, rtVars, snapVars, foldVars, weVars,
    cvVars, colVars, calls>>
notWe == <<mode, decVars, encVars, bytVars, rtVars, snapVars, foldVars, humanVars,
    cvVars, colVars, calls>>
notCv == <<mode, decVars, encVars, bytVars, rtVars, snapVars, foldVars, humanVars,
    weVars, colVars, calls>>
notCol == <<mode, decVars, encVars, bytVars, rtVars, snapVars, foldVars, humanVars,
    weVars, cvVars, calls>>
notCalls == <<mode, decVars, encVars, bytVars, rtVars, snapVars, foldVars, humanVars,
    weVars, cvVars, colVars>>

(***************************************************************************)
(* Values, errors and results.                                             *)
(***************************************************************************)
Vals == 1..MaxVal

\* The errors a decoder or an inner adapter can raise for one element.
ElemErrors == {"custom", "syntax"}

\* One outcome of seq.next_element::<WithEncoding<F, T>>() other than Ok(None).
OkItem(v) == [kind |-> "ok", val |-> v]
ErrItem(e) == [kind |-> "err", err |-> e]
SourceItems == {OkItem(v) : v \in Vals} \cup {ErrItem(e) : e \in ElemErrors}

RECURSIVE SeqsUpTo(_, _)
SeqsUpTo(S, n) ==
    IF n = 0 THEN {<<>>}
    ELSE LET shorter == SeqsUpTo(S, n - 1)
         IN  shorter \cup {Append(s, x) : s \in {t \in shorter : Len(t) = n - 1}, x \in S}

NoResult == [kind |-> "none"]
OkResult(v) == [kind |-> "ok", val |-> v]
ErrResult(e) == [kind |-> "err", err |-> e]

\* Mutant of ElementError: the element's error is replaced by a custom one.
ElementErrorReplaced(e) == [e |-> "element", msg |-> "custom"]

\* Mutant of ElementError: the error is wrapped into a custom one.
ElementErrorWrapped(e) == [e |-> "custom", msg |-> e]

\* The error the element decode raised, as the deserializer's error type carries it.
ElementError(e) == [e |-> "element", msg |-> e]

\* impl Expected for ExpectedArrayLength<N>: "an array of length {N}"
ExpectedArrayLength(n) == <<"an array of length", n>>

\* serde::de::Error::invalid_length(len, &expected)
InvalidLength(len, expected) ==
    [e |-> "invalid_length", actual |-> len, expected |-> expected]

(***************************************************************************)
(* MaybeUninitArray<N, T>                                                  *)
(***************************************************************************)
\* MaybeUninit::uninit(): a slot that holds no element.  An initialized slot
\* holds the id of its element, which is the element's position in the source.
Uninit == 0

UninitItems(n) == [k \in 1..n |-> Uninit]

Min(a, b) == IF a < b THEN a ELSE b

\* Mutant of DropRange: Drop visits every slot, whatever count says.
DropRangeAll(its, cnt) == 1..Len(its)

\* The slots Drop visits: self.items.iter_mut().take(self.count)
DropRange(its, cnt) == 1..Min(cnt, Len(its))

\* Mutant of CountAfterMove: count is not reset before the slots are moved out.
CountNotReset == N

\* The count fill leaves in the buffer when it moves the slots out.
CountAfterMove == 0

\* Mutant of WriteSlot: the slots are filled from the last one down.
WriteSlotFromEnd(s) == N - s

\* The slot an element is written to: the one items.iter_mut() yields.
WriteSlot(s) == s + 1

\* Mutant of CountAfterWrite: the increment is forgotten.
CountAfterWriteSkipped(c) == c

\* self.count += 1
CountAfterWrite(c) == c + 1

\* Mutant of SourceAsked: the source is asked whether or not a slot is left.
SourceAskedAlways(s, n) == TRUE

\* Zip::next asks the source only after items.iter_mut() has yielded a slot.
SourceAsked(s, n) == s < n

\* Mutant of LengthError: the error reports N where the count belongs.
LengthErrorReportsN(cnt, n) == InvalidLength(n, ExpectedArrayLength(n))

\* E::invalid_length(self.count, &ExpectedArrayLength::<N>)
LengthError(cnt, n) == InvalidLength(cnt, ExpectedArrayLength(n))

\* Mutant of New: fill is entered on a buffer that already counts a slot.
NewPopulated ==
    /\ mode = "decode"
    /\ pc = "visit_seq"
    /\ items' = UninitItems(N)
    /\ count' = Min(1, N)
    /\ slot' = 0
    /\ pc' = "fill"
    /\ UNCHANGED <<notDec, N, source, pos, requests, result, written,
                   bufferDrops, ownerDrops, uninitTouched>>

\* MaybeUninitArray::new
New ==
    /\ mode = "decode"
    /\ pc = "visit_seq"
    /\ items' = UninitItems(N)
    /\ count' = 0
    /\ slot' = 0
    /\ pc' = "fill"
    /\ UNCHANGED <<notDec, N, source, pos, requests, result, written,
                   bufferDrops, ownerDrops, uninitTouched>>

\* fill: Zip::next asks items.iter_mut() first; once the N slots are used up
\* the loop ends and the source is not asked again.
FillSlotsExhausted ==
    /\ mode = "decode"
    /\ pc = "fill"
    /\ slot = N
    /\ pc' = "check"
    /\ UNCHANGED <<notDec, N, source, pos, requests, items, count, slot, result,
                   written, bufferDrops, ownerDrops, uninitTouched>>

\* fill: next_element returns Ok(None), from_fn yields None and the loop ends.
FillSourceExhausted ==
    /\ mode = "decode"
    /\ pc = "fill"
    /\ SourceAsked(slot, N)
    /\ pos = Len(source)
    /\ requests' = requests + 1
    /\ pc' = "check"
    /\ UNCHANGED <<notDec, N, source, pos, items, count, slot, result, written,
                   bufferDrops, ownerDrops, uninitTouched>>

\* fill: next_element returns Err(e); `x?` leaves the closure before the write,
\* try_for_each stops and `?` returns the error from fill.
FillElementError ==
    /\ mode = "decode"
    /\ pc = "fill"
    /\ SourceAsked(slot, N)
    /\ pos < Len(source)
    /\ source[pos + 1].kind = "err"
    /\ requests' = requests + 1
    /\ pos' = pos + 1
    /\ result' = ErrResult(ElementError(source[pos + 1].err))
    /\ pc' = "drop"
    /\ UNCHANGED <<notDec, N, source, items, count, slot, written,
                   bufferDrops, ownerDrops, uninitTouched>>

\* fill: next_element returns Ok(Some(x)); out.write(x), then self.count += 1.
FillWrite ==
    /\ mode = "decode"
    /\ pc = "fill"
    /\ SourceAsked(slot, N)
    /\ pos < Len(source)
    /\ source[pos + 1].kind = "ok"
    /\ requests' = requests + 1
    /\ pos' = pos + 1
    /\ items' = [items EXCEPT ![WriteSlot(slot)] = pos + 1]
    /\ written' = Append(written, pos + 1)
    /\ count' = CountAfterWrite(count)
    /\ slot' = slot + 1
    /\ UNCHANGED <<notDec, N, source, pc, result, bufferDrops, ownerDrops,
                   uninitTouched>>

\* fill, after the loop: fewer than N written is a length error.
FillShort ==
    /\ mode = "decode"
    /\ pc = "check"
    /\ count # N
    /\ result' = ErrResult(LengthError(count, N))
    /\ pc' = "drop"
    /\ UNCHANGED <<notDec, N, source, pos, requests, items, count, slot, written,
                   bufferDrops, ownerDrops, uninitTouched>>

\* fill, after the loop: count = 0, the slots are replaced by fresh
\* uninitialized ones and the old ones are read out with assume_init.
FillMoveOut ==
    /\ mode = "decode"
    /\ pc = "check"
    /\ count = N
    /\ count' = CountAfterMove
    /\ items' = UninitItems(N)
    /\ uninitTouched' = (uninitTouched \/ \E k \in 1..N : items[k] = Uninit)
    /\ result' = OkResult(items)
    /\ pc' = "drop"
    /\ UNCHANGED <<notDec, N, source, pos, requests, slot, written,
                   bufferDrops, ownerDrops>>

\* impl Drop for MaybeUninitArray: assume_init_drop on the first `count` slots.
\* It runs when visit_seq's temporary goes out of scope, on every path.
Drop ==
    /\ mode = "decode"
    /\ pc = "drop"
    /\ bufferDrops' =
          [id \in DOMAIN bufferDrops |->
              bufferDrops[id]
                + Cardinality({k \in DropRange(items, count) : items[k] = id})]
    /\ uninitTouched' =
          (uninitTouched \/ \E k \in DropRange(items, count) : items[k] = Uninit)
    /\ pc' = "returned"
    /\ UNCHANGED <<notDec, N, source, pos, requests, items, count, slot, result,
                   written, ownerDrops>>

\* The caller of the decode drops the array it was given (nothing on an error).
OwnerRelease ==
    /\ mode = "decode"
    /\ pc = "returned"
    /\ ownerDrops' =
          [id \in DOMAIN ownerDrops |->
              ownerDrops[id]
                + IF result.kind = "ok"
                  THEN Cardinality({k \in DOMAIN result.val : result.val[k] = id})
                  ELSE 0]
    /\ pc' = "done"
    /\ UNCHANGED <<notDec, N, source, pos, requests, items, count, slot, result,
                   written, bufferDrops, uninitTouched>>

(***************************************************************************)
(* impl SerializeWith<[T; N]> for Array<F>                                 *)
(***************************************************************************)
\* The error of a call of the sink (serialize_tuple, end) that failed.
SinkError(call) == [e |-> "sink", call |-> call]

\* The error F::serialize_with returned for the element at index i.
InnerError(i) == [e |-> "inner", index |-> i]

\* serializer.serialize_tuple(N)
TupleCall(n) == [op |-> "tuple", len |-> n]

\* out.serialize_element(&WithEncoding::<&F, &T>::from(x)): the element goes
\* to the sink bound to F, and the sink encodes it by F::serialize_with.
ElementCall(i, x) == [op |-> "element", index |-> i, via |-> "F", val |-> x]

\* out.end()
EndCall == [op |-> "end"]

\* Mutant of AfterElementError: the loop goes on after a failed element.
AfterElementErrorGoOn == "elements"

\* try_for_each stops at the first Err and `?` returns it.
AfterElementError == "done"

\* serializer.serialize_tuple(N)?
SerializeTuple ==
    /\ mode = "encode"
    /\ epc = "start"
    /\ sinkFails # "tuple"
    /\ out' = Append(out, TupleCall(Len(value)))
    /\ epc' = "elements"
    /\ UNCHANGED <<notEnc, value, fFails, sinkFails, idx, eresult>>

SerializeTupleFails ==
    /\ mode = "encode"
    /\ epc = "start"
    /\ sinkFails = "tuple"
    /\ eresult' = ErrResult(SinkError("tuple"))
    /\ epc' = "done"
    /\ UNCHANGED <<notEnc, value, fFails, sinkFails, out, idx>>

\* One step of value.iter().try_for_each(..): the element is handed to the
\* sink and F encodes it.
SerializeElement ==
    /\ mode = "encode"
    /\ epc = "elements"
    /\ idx < Len(value)
    /\ (idx + 1) \notin fFails
    /\ out' = Append(out, ElementCall(idx + 1, value[idx + 1]))
    /\ idx' = idx + 1
    /\ UNCHANGED <<notEnc, value, fFails, sinkFails, epc, eresult>>

\* One step of value.iter().try_for_each(..): F fails on the element.
SerializeElementFails ==
    /\ mode = "encode"
    /\ epc = "elements"
    /\ idx < Len(value)
    /\ (idx + 1) \in fFails
    /\ out' = Append(out, ElementCall(idx + 1, value[idx + 1]))
    /\ idx' = idx + 1
    /\ eresult' = ErrResult(InnerError(idx + 1))
    /\ epc' = AfterElementError
    /\ UNCHANGED <<notEnc, value, fFails, sinkFails>>

\* out.end()
SerializeEnd ==
    /\ mode = "encode"
    /\ epc = "elements"
    /\ idx = Len(value)
    /\ sinkFails # "end"
    /\ out' = Append(out, EndCall)
    /\ eresult' = OkResult(out')
    /\ epc' = "done"
    /\ UNCHANGED <<notEnc, value, fFails, sinkFails, idx>>

SerializeEndFails ==
    /\ mode = "encode"
    /\ epc = "elements"
    /\ idx = Len(value)
    /\ sinkFails = "end"
    /\ eresult' = ErrResult(SinkError("end"))
    /\ epc' = "done"
    /\ UNCHANGED <<notEnc, value, fFails, sinkFails, out, idx>>

(***************************************************************************)
(* The byte-sequence codec: what the decoder hands to a visitor.           *)
(***************************************************************************)
\* The u8 values and the chars (code points) the sources are built from.
U8Sample == {0, 255}
CharSample == {65, 233}

\* The ways a decoder hands over a byte blob, a string, or a sequence.
BlobShapes == {"borrowed_bytes", "bytes", "byte_buf"}
StrShapes == {"borrowed_str", "str", "string"}

Presented(shape, data) == [shape |-> shape, data |-> data]

\* The UTF-8 encoding of one char.
Utf8(c) ==
    IF c < 128 THEN <<c>>
    ELSE IF c < 2048 THEN <<192 + (c \div 64), 128 + (c % 64)>>
    ELSE <<224 + (c \div 4096), 128 + ((c \div 64) % 64), 128 + (c % 64)>>

\* str::as_bytes
RECURSIVE AsBytes(_)
AsBytes(str) ==
    IF str = <<>> THEN <<>> ELSE Utf8(Head(str)) \o AsBytes(Tail(str))

\* ArrayVisitor::expecting: "a byte array of {N} bytes"
ExpectingByteArray(n) == <<"a byte array of", n, "bytes">>

\* The outcome of a visit: the result and the next_element calls it made.
Visit(res, reqs) == [res |-> res, requests |-> reqs]

\* Mutant of ArrayVisitBytes: the length is not checked.
ArrayVisitBytesUnchecked(n, v) == Visit(OkResult(v), 0)

\* ArrayVisitor::visit_bytes: v.try_into(), or invalid_length(v.len(), &self)
ArrayVisitBytes(n, v) ==
    IF Len(v) = n
    THEN Visit(OkResult(v), 0)
    ELSE Visit(ErrResult(InvalidLength(Len(v), ExpectingByteArray(n))), 0)

\* ArrayVisitor::visit_str
ArrayVisitStr(n, str) == ArrayVisitBytes(n, AsBytes(str))

\* ArrayVisitor::visit_seq: slot i takes the next element; a missing one is
\* invalid_length(i, &self), an error is returned as it is; after slot N - 1
\* the array is returned and the source is not asked again.
RECURSIVE ArrayVisitSeq(_, _, _, _)
ArrayVisitSeq(i, n, src, bytes) ==
    IF i = n THEN Visit(OkResult(bytes), i)
    ELSE IF i >= Len(src)
    THEN Visit(ErrResult(InvalidLength(i, ExpectingByteArray(n))), i + 1)
    ELSE IF src[i + 1].kind = "err"
    THEN Visit(ErrResult(ElementError(src[i + 1].err)), i + 1)
    ELSE ArrayVisitSeq(i + 1, n, src, Append(bytes, src[i + 1].val))

\* E::custom(msg)
Custom(msg) == [e |-> "custom", msg |-> msg]

\* A visit method the visitor does not implement: serde's default rejects it.
InvalidType(shape, expecting) ==
    [e |-> "invalid_type", unexpected |-> shape, expected |-> expecting]

\* impl Visitor for ArrayVisitor<N>: the borrowed and owned forms of a blob
\* or string arrive at visit_bytes / visit_str by serde's defaults.
ArrayVisitor(n, src) ==
    IF src.shape \in BlobShapes THEN ArrayVisitBytes(n, src.data)
    ELSE IF src.shape \in StrShapes THEN ArrayVisitStr(n, src.data)
    ELSE IF src.shape = "seq" THEN ArrayVisitSeq(0, n, src.data, <<>>)
    ELSE Visit(ErrResult(InvalidType(src.shape, ExpectingByteArray(n))), 0)

\* VecVisitor::visit_seq: `while let Some(b) = seq.next_element()?` pushes
\* every element up to the end of the source; an error is returned as it is.
RECURSIVE VecVisitSeq(_, _, _)
VecVisitSeq(i, src, bytes) ==
    IF i >= Len(src) THEN Visit(OkResult(bytes), i + 1)
    ELSE IF src[i + 1].kind = "err"
    THEN Visit(ErrResult(ElementError(src[i + 1].err)), i + 1)
    ELSE VecVisitSeq(i + 1, src, Append(bytes, src[i + 1].val))

\* impl Visitor for VecVisitor: visit_byte_buf, visit_bytes, visit_string,
\* visit_str and visit_seq; the borrowed forms arrive at visit_bytes /
\* visit_str by serde's defaults.
VecVisitor(src) ==
    IF src.shape \in BlobShapes THEN Visit(OkResult(src.data), 0)
    ELSE IF src.shape \in StrShapes THEN Visit(OkResult(AsBytes(src.data)), 0)
    ELSE IF src.shape = "seq" THEN VecVisitSeq(0, src.data, <<>>)
    ELSE Visit(ErrResult(InvalidType(src.shape, "bytes")), 0)

\* Mutant of SliceVisitor: a transient or owned blob or string is accepted.
SliceVisitorAnyLifetime(src) ==
    IF src.shape \in BlobShapes THEN Visit(OkResult(src.data), 0)
    ELSE IF src.shape \in StrShapes THEN Visit(OkResult(AsBytes(src.data)), 0)
    ELSE Visit(ErrResult(InvalidType(src.shape, "bytes")), 0)

\* impl Visitor for SliceVisitor: visit_borrowed_bytes and visit_borrowed_str
\* only; every other visit method is serde's default, which rejects.
SliceVisitor(src) ==
    IF src.shape = "borrowed_bytes" THEN Visit(OkResult(src.data), 0)
    ELSE IF src.shape = "borrowed_str" THEN Visit(OkResult(AsBytes(src.data)), 0)
    ELSE Visit(ErrResult(InvalidType(src.shape, "bytes")), 0)

\* impl DeserializeWith<&[u8; N]> for Bytes: the borrowed slice, then
\* try_into() or invalid_length(bytes.len(), &ArrayVisitor::<N>)
RefArrayFromSlice(n, src) ==
    LET slice == SliceVisitor(src)
    IN  IF slice.res.kind = "err" THEN slice
        ELSE IF Len(slice.res.val) = n THEN slice
        ELSE Visit(ErrResult(InvalidLength(Len(slice.res.val),
                                           ExpectingByteArray(n))), 0)

\* Cow::Borrowed(v) and Cow::Owned(v)
CowBorrowed(bytes) == [variant |-> "Borrowed", bytes |-> bytes]
CowOwned(bytes) == [variant |-> "Owned", bytes |-> bytes]

\* Mutant of CowVisitBorrowedBytes: the borrowed blob is copied.
CowVisitBorrowedBytesCopied(v) == CowOwned(v)

\* CowVisitor::visit_borrowed_bytes
CowVisitBorrowedBytes(v) == CowBorrowed(v)

\* impl Visitor for CowVisitor: each of the six blob and string methods is
\* implemented; visit_seq is VecVisitor.visit_seq(seq).map(Into::into).
CowVisitor(src) ==
    CASE src.shape = "borrowed_bytes" -> Visit(OkResult(CowVisitBorrowedBytes(src.data)), 0)
      [] src.shape = "byte_buf" -> Visit(OkResult(CowOwned(src.data)), 0)
      [] src.shape = "bytes" -> Visit(OkResult(CowOwned(src.data)), 0)
      [] src.shape = "borrowed_str" -> Visit(OkResult(CowBorrowed(AsBytes(src.data))), 0)
      [] src.shape = "string" -> Visit(OkResult(CowOwned(AsBytes(src.data))), 0)
      [] src.shape = "str" -> Visit(OkResult(CowOwned(AsBytes(src.data))), 0)
      [] src.shape = "seq" ->
           LET vec == VecVisitSeq(0, src.data, <<>>)
           IN  IF vec.res.kind = "err" THEN vec
               ELSE Visit(OkResult(CowOwned(vec.res.val)), vec.requests)
      [] OTHER -> Visit(ErrResult(InvalidType(src.shape, "bytes")), 0)

\* Where the bytes of a Cow live: in the decoder's input (Borrowed), in the
\* buffer the decoder handed over (visit_byte_buf, visit_string), in a fresh
\* copy (to_vec), or in the Vec collected from a sequence.
CowStorage(src) ==
    CASE src.shape \in {"borrowed_bytes", "borrowed_str"} -> "input"
      [] src.shape \in {"byte_buf", "string"} -> "moved"
      [] src.shape \in {"bytes", "str"} -> "copied"
      [] src.shape = "seq" -> "collected"
      [] OTHER -> "none"

\* Where the bytes of a Vec<u8> live: visit_byte_buf and visit_string keep the
\* decoder's buffer, visit_bytes and visit_str (and the borrowed forms, which
\* default to them) copy with to_vec.
VecStorage(src) ==
    CASE src.shape \in {"byte_buf", "string"} -> "moved"
      [] src.shape \in BlobShapes \cup StrShapes -> "copied"
      [] src.shape = "seq" -> "collected"
      [] OTHER -> "none"

\* The literal 4096 of VecVisitor::visit_seq.
CapacityLimit == 4096

\* A size hint above the limit.
HugeHint == 5000

\* What SeqAccess::size_hint can answer: None is <<>>, Some(n) is <<n>>.
SizeHints == {<<>>} \cup {<<n>> : n \in {0, 1, MaxLen + 1, CapacityLimit, HugeHint}}

\* Mutant of InitialCapacity: the hint is trusted.
InitialCapacityTrusted(hint) == IF hint = <<>> THEN 0 ELSE hint[1]

\* seq.size_hint().unwrap_or(0).min(4096)
InitialCapacity(hint) == Min(IF hint = <<>> THEN 0 ELSE hint[1], CapacityLimit)

\* impl DeserializeWith<[u8; N]> for Bytes: deserialize_bytes(ArrayVisitor::<N>)
DeserializeByteArray ==
    /\ mode = "bytes"
    /\ bpc = "start"
    /\ bTarget = "array"
    /\ bresult' = ArrayVisitor(bN, bSource).res
    /\ brequests' = ArrayVisitor(bN, bSource).requests
    /\ bstorage' = IF ArrayVisitor(bN, bSource).res.kind = "ok" THEN "inline" ELSE "none"
    /\ bpc' = "done"
    /\ UNCHANGED <<notByt, bTarget, bN, bSource, bHint,
                   bConvFails, bcapacity, bbuf, bconversions>>

\* impl DeserializeWith<&[u8]> for Bytes: deserialize_bytes(SliceVisitor)
DeserializeSlice ==
    /\ mode = "bytes"
    /\ bpc = "start"
    /\ bTarget = "slice"
    /\ bresult' = SliceVisitor(bSource).res
    /\ brequests' = SliceVisitor(bSource).requests
    /\ bstorage' = IF SliceVisitor(bSource).res.kind = "ok" THEN "input" ELSE "none"
    /\ bpc' = "done"
    /\ UNCHANGED <<notByt, bTarget, bN, bSource, bHint,
                   bConvFails, bcapacity, bbuf, bconversions>>

\* impl DeserializeWith<&[u8; N]> for Bytes: the slice, then try_into()
DeserializeRefArray ==
    /\ mode = "bytes"
    /\ bpc = "start"
    /\ bTarget = "ref_array"
    /\ bresult' = RefArrayFromSlice(bN, bSource).res
    /\ brequests' = RefArrayFromSlice(bN, bSource).requests
    /\ bstorage' = IF RefArrayFromSlice(bN, bSource).res.kind = "ok"
                   THEN "input" ELSE "none"
    /\ bpc' = "done"
    /\ UNCHANGED <<notByt, bTarget, bN, bSource, bHint,
                   bConvFails, bcapacity, bbuf, bconversions>>

\* impl DeserializeWith<Cow<[u8]>> for Bytes: deserialize_bytes(CowVisitor)
DeserializeCow ==
    /\ mode = "bytes"
    /\ bpc = "start"
    /\ bTarget = "cow"
    /\ bresult' = CowVisitor(bSource).res
    /\ brequests' = CowVisitor(bSource).requests
    /\ bstorage' = IF CowVisitor(bSource).res.kind = "ok"
                   THEN CowStorage(bSource) ELSE "none"
    /\ bpc' = "done"
    /\ UNCHANGED <<notByt, bTarget, bN, bSource, bHint,
                   bConvFails, bcapacity, bbuf, bconversions>>

\* Where a finished Vec<u8> decode goes: Bytes returns it, ByteVec converts it.
AfterBuffer(res) ==
    IF bTarget = "byte_vec" /\ res.kind = "ok" THEN "convert" ELSE "done"

\* impl DeserializeWith<Vec<u8>> for Bytes, on a blob or a string (or a shape
\* VecVisitor rejects): deserialize_byte_buf(VecVisitor) ends in one visit.
DeserializeVecBlob ==
    /\ mode = "bytes"
    /\ bpc = "start"
    /\ bTarget \in {"vec", "byte_vec"}
    /\ bSource.shape # "seq"
    /\ LET visit == VecVisitor(bSource)
       IN  /\ bresult' = IF AfterBuffer(visit.res) = "convert" THEN NoResult
                         ELSE visit.res
           /\ bbuf' = IF visit.res.kind = "ok" THEN visit.res.val ELSE <<>>
           /\ bstorage' = IF visit.res.kind = "ok" THEN VecStorage(bSource) ELSE "none"
           /\ bpc' = AfterBuffer(visit.res)
    /\ UNCHANGED <<notByt, bTarget, bN, bSource, bHint,
                   bConvFails, brequests, bcapacity, bconversions>>

\* VecVisitor::visit_seq: Vec::with_capacity(size_hint().unwrap_or(0).min(4096))
VecSeqReserve ==
    /\ mode = "bytes"
    /\ bpc = "start"
    /\ bTarget \in {"vec", "byte_vec"}
    /\ bSource.shape = "seq"
    /\ bcapacity' = InitialCapacity(bHint)
    /\ bbuf' = <<>>
    /\ bpc' = "collect"
    /\ UNCHANGED <<notByt, bTarget, bN, bSource, bHint,
                   bConvFails, bresult, brequests, bstorage, bconversions>>

\* VecVisitor::visit_seq: next_element() is Some(b), bytes.push(b)
VecSeqPush ==
    /\ mode = "bytes"
    /\ bpc = "collect"
    /\ brequests < Len(bSource.data)
    /\ bSource.data[brequests + 1].kind = "ok"
    /\ bbuf' = Append(bbuf, bSource.data[brequests + 1].val)
    /\ brequests' = brequests + 1
    /\ UNCHANGED <<notByt, bTarget, bN, bSource, bHint,
                   bConvFails, bpc, bresult, bstorage, bcapacity, bconversions>>

\* VecVisitor::visit_seq: next_element()? is an error
VecSeqError ==
    /\ mode = "bytes"
    /\ bpc = "collect"
    /\ brequests < Len(bSource.data)
    /\ bSource.data[brequests + 1].kind = "err"
    /\ bresult' = ErrResult(ElementError(bSource.data[brequests + 1].err))
    /\ brequests' = brequests + 1
    /\ bbuf' = <<>>
    /\ bpc' = "done"
    /\ UNCHANGED <<notByt, bTarget, bN, bSource, bHint,
                   bConvFails, bstorage, bcapacity, bconversions>>

\* VecVisitor::visit_seq: next_element() is None, Ok(bytes)
VecSeqEnd ==
    /\ mode = "bytes"
    /\ bpc = "collect"
    /\ brequests = Len(bSource.data)
    /\ brequests' = brequests + 1
    /\ bresult' = IF AfterBuffer(OkResult(bbuf)) = "convert" THEN NoResult
                  ELSE OkResult(bbuf)
    /\ bstorage' = "collected"
    /\ bpc' = AfterBuffer(OkResult(bbuf))
    /\ UNCHANGED <<notByt, bTarget, bN, bSource, bHint,
                   bConvFails, bcapacity, bbuf, bconversions>>

\* What a successful TryFrom<Vec<u8>> makes of the buffer.
Converted(bytes) == [converted |-> bytes]

\* The Display of the conversion's error.
ConversionMessage == "conversion failed"

\* Mutant of ConversionError: the conversion's message is dropped.
ConversionErrorBlank(msg) == Custom("")

\* map_err(serde::de::Error::custom) on the conversion's error
ConversionError(msg) == Custom(msg)

\* impl DeserializeWith<T> for ByteVec: bytes.try_into().map_err(Error::custom)
ByteVecConvert ==
    /\ mode = "bytes"
    /\ bpc = "convert"
    /\ bconversions' = bconversions + 1
    /\ bresult' = IF bConvFails THEN ErrResult(ConversionError(ConversionMessage))
                  ELSE OkResult(Converted(bbuf))
    /\ bbuf' = <<>>
    /\ bpc' = "done"
    /\ UNCHANGED <<notByt, bTarget, bN, bSource, bHint,
                   bConvFails, brequests, bstorage, bcapacity>>

(***************************************************************************)
(* The Str adapter: Display on the way out, FromStr on the way in.         *)
(* A string is the sequence of its chars (code points).                    *)
(***************************************************************************)
IntMin(ty) == IF ty = "i8" THEN -128 ELSE 0
IntMax(ty) == IF ty = "i8" THEN 127 ELSE 255
IsSigned(ty) == ty = "i8"

\* The decimal digits of a natural number, most significant first.
RECURSIVE Digits(_)
Digits(n) ==
    IF n < 10 THEN <<48 + n>> ELSE Append(Digits(n \div 10), 48 + (n % 10))

\* Mutant of Display: the sign is left out.
DisplayUnsigned(n) == IF n < 0 THEN Digits(-n) ELSE Digits(n)

\* impl Display for an integer, as serializer.collect_str(value) writes it.
Display(n) == IF n < 0 THEN <<45>> \o Digits(-n) ELSE Digits(n)

\* The digits of a string accumulated into a number of type ty; the sign is
\* applied digit by digit, as the overflow checks need.
RECURSIVE ParseDigits(_, _, _, _)
ParseDigits(ty, digits, positive, acc) ==
    IF digits = <<>> THEN OkResult(acc)
    ELSE IF Head(digits) \notin 48..57
    THEN ErrResult(Custom("invalid digit found in string"))
    ELSE LET d == Head(digits) - 48
             next == IF positive THEN acc * 10 + d ELSE acc * 10 - d
         IN  IF next > IntMax(ty)
             THEN ErrResult(Custom("number too large to fit in target type"))
             ELSE IF next < IntMin(ty)
             THEN ErrResult(Custom("number too small to fit in target type"))
             ELSE ParseDigits(ty, Tail(digits), positive, next)

\* StrVisitor::visit_str: v.parse().map_err(E::custom), for an integer type.
StrVisitStr(ty, str) ==
    IF str = <<>> THEN ErrResult(Custom("cannot parse integer from empty string"))
    ELSE IF str = <<43>> \/ str = <<45>>
    THEN ErrResult(Custom("invalid digit found in string"))
    ELSE IF Head(str) = 43 THEN ParseDigits(ty, Tail(str), TRUE, 0)
    ELSE IF Head(str) = 45 /\ IsSigned(ty) THEN ParseDigits(ty, Tail(str), FALSE, 0)
    ELSE ParseDigits(ty, str, TRUE, 0)

(***************************************************************************)
(* What an encoder is given, as a tree of the serde data model.            *)
(***************************************************************************)
DmStr(str) == [t |-> "str", s |-> str]
DmBytes(b) == [t |-> "bytes", b |-> b]
DmTuple(xs) == [t |-> "tuple", xs |-> xs]
DmSeq(xs) == [t |-> "seq", xs |-> xs]
DmMap(es) == [t |-> "map", es |-> es]
DmNone == [t |-> "none"]
DmSome(x) == [t |-> "some", x |-> x]
DmStruct(fields) == [t |-> "struct", fields |-> fields]
DmUnitVariant(name) == [t |-> "unit_variant", name |-> name]
DmNewtypeVariant(name, x) == [t |-> "newtype_variant", name |-> name, x |-> x]

(***************************************************************************)
(* Adapters and the types they are applied to.                             *)
(***************************************************************************)
StrNode(ty) == [a |-> "Str", ty |-> ty]
BytesNode(ty, n) == [a |-> "Bytes", ty |-> ty, n |-> n]
ArrayNode(n, f) == [a |-> "Array", n |-> n, f |-> f]
SeqNode(f) == [a |-> "Seq", f |-> f]
MapNode(f, g) == [a |-> "Map", f |-> f, g |-> g]
OptionNode(f) == [a |-> "Option", f |-> f]
RangeNode(kind, f) == [a |-> "Range", kind |-> kind, f |-> f]
TupleNode(f, g) == [a |-> "Tuple", f |-> f, g |-> g]
WrappingNode(f) == [a |-> "Wrapping", f |-> f]

\* The forms in which a decoder hands a byte blob back: borrowed from its
\* input (bincode over a slice), as a transient slice, as an owned buffer, or
\* as a sequence of numbers (serde_json).
Formats == {"borrowed", "transient", "owned", "seq"}

BlobShape(fmt) ==
    IF fmt = "borrowed" THEN "borrowed_bytes"
    ELSE IF fmt = "transient" THEN "bytes" ELSE "byte_buf"

StrShape(fmt) ==
    IF fmt = "borrowed" THEN "borrowed_str"
    ELSE IF fmt = "transient" THEN "str" ELSE "string"

\* What deserialize_bytes / deserialize_byte_buf hands to the visitor.
PresentBytes(dm, fmt) ==
    IF dm.t = "bytes"
    THEN IF fmt = "seq"
         THEN Presented("seq", [i \in 1..Len(dm.b) |-> OkItem(dm.b[i])])
         ELSE Presented(BlobShape(fmt), dm.b)
    ELSE IF dm.t = "str" THEN Presented(StrShape(fmt), dm.s)
    ELSE Presented(dm.t, <<>>)

(***************************************************************************)
(* SerializeWith, adapter by adapter.                                      *)
(***************************************************************************)
RECURSIVE SerializeWith(_, _)

\* impl SerializeWith<T> for Str: serializer.collect_str(value)
StrSerializeWith(v) == DmStr(Display(v))

\* impl Serialize-like for Bytes: serializer.serialize_bytes(value.as_ref())
BytesSerialize(v) == DmBytes(v)

\* impl SerializeWith<[T; N]> for Array<F>: a tuple of N elements through F
ArraySerializeWith(node, v) ==
    DmTuple([i \in 1..node.n |-> SerializeWith(node.f, v[i])])

\* impl SerializeWith<C> for Seq<F>: collect_seq of the elements through F
SeqSerializeWith(node, v) ==
    DmSeq([i \in 1..Len(v) |-> SerializeWith(node.f, v[i])])

\* The keys of a map in the order its iterator yields them.
RECURSIVE KeysInOrder(_)
KeysInOrder(S) ==
    IF S = {} THEN <<>>
    ELSE LET least == CHOOSE k \in S : \A j \in S : k <= j
         IN  <<least>> \o KeysInOrder(S \ {least})

\* impl SerializeWith<C> for Map<F, G>: collect_map of (key through F, value
\* through G)
MapSerializeWith(node, v) ==
    LET keys == KeysInOrder(DOMAIN v)
    IN  DmMap([i \in 1..Len(keys) |->
                  [k |-> SerializeWith(node.f, keys[i]),
                   v |-> SerializeWith(node.g, v[keys[i]])]])

\* impl SerializeWith<Option<T>> for Option<F>
OptionSerializeWith(node, v) ==
    IF v.some THEN DmSome(SerializeWith(node.f, v.x)) ELSE DmNone

Field(name, x) == [name |-> name, x |-> x]

\* impl SerializeWith<...> for Range<F>: the std range rebuilt around
\* WithEncoding<&F, &T> and serialized as serde serializes it.  A
\* RangeToInclusive goes out as RangeTo { end }; a RangeInclusive is rebuilt
\* with RangeInclusive::new(start, end).
RangeSerializeWith(node, v) ==
    CASE node.kind = "Range" ->
           DmStruct(<<Field("start", SerializeWith(node.f, v.start)),
                      Field("end", SerializeWith(node.f, v.end))>>)
      [] node.kind = "RangeFrom" ->
           DmStruct(<<Field("start", SerializeWith(node.f, v.start))>>)
      [] node.kind = "RangeTo" ->
           DmStruct(<<Field("end", SerializeWith(node.f, v.end))>>)
      [] node.kind = "RangeToInclusive" ->
           DmStruct(<<Field("end", SerializeWith(node.f, v.end))>>)
      [] node.kind = "RangeInclusive" ->
           DmStruct(<<Field("start", SerializeWith(node.f, v.start)),
                      Field("end", SerializeWith(node.f, v.end))>>)
      [] node.kind = "Bound" ->
           IF v.b = "Unbounded" THEN DmUnitVariant("Unbounded")
           ELSE DmNewtypeVariant(v.b, SerializeWith(node.f, v.x))

\* impl SerializeWith<(T0, T1)> for (F0, F1): the tuple of WithEncoding values
TupleSerializeWith(node, v) ==
    DmTuple(<<SerializeWith(node.f, v[1]), SerializeWith(node.g, v[2])>>)

\* impl SerializeWith<Wrapping<T>> for Wrapping<F>: Wrapping(x) serializes as x
WrappingSerializeWith(node, v) == SerializeWith(node.f, v.wrapped)

\* trait SerializeWith, dispatched on the adapter
SerializeWith(node, v) ==
    CASE node.a = "Str" -> StrSerializeWith(v)
      [] node.a = "Bytes" -> BytesSerialize(v)
      [] node.a = "Array" -> ArraySerializeWith(node, v)
      [] node.a = "Seq" -> SeqSerializeWith(node, v)
      [] node.a = "Map" -> MapSerializeWith(node, v)
      [] node.a = "Option" -> OptionSerializeWith(node, v)
      [] node.a = "Range" -> RangeSerializeWith(node, v)
      [] node.a = "Tuple" -> TupleSerializeWith(node, v)
      [] node.a = "Wrapping" -> WrappingSerializeWith(node, v)

(***************************************************************************)
(* DeserializeWith, adapter by adapter.                                    *)
(***************************************************************************)
RECURSIVE DeserializeWith(_, _, _)

\* impl DeserializeWith<T> for Str: deserialize_str(StrVisitor); a string of
\* any form arrives at visit_str.  The encoder is only ever given a string
\* by Str, so visit_bytes (from_utf8, then parse) is never entered here.
StrDeserializeWith(node, dm) ==
    IF dm.t = "str" THEN StrVisitStr(node.ty, dm.s)
    ELSE ErrResult(InvalidType(dm.t, "a string"))

\* impl DeserializeWith<...> for Bytes, by target type
BytesDeserialize(node, dm, fmt) ==
    LET src == PresentBytes(dm, fmt)
    IN  CASE node.ty = "vec" -> VecVisitor(src).res
          [] node.ty = "array" -> ArrayVisitor(node.n, src).res
          [] node.ty = "slice" -> SliceVisitor(src).res
          [] node.ty = "ref_array" -> RefArrayFromSlice(node.n, src).res

\* MaybeUninitArray::fill over a decoder's sequence: slot i takes the next
\* element through F; the slots are asked before the source.
RECURSIVE FillFrom(_, _, _, _, _, _)
FillFrom(n, f, xs, fmt, i, buffer) ==
    IF ~SourceAsked(i, n) THEN OkResult(buffer)
    ELSE IF i >= Len(xs) THEN ErrResult(LengthError(i, n))
    ELSE LET x == DeserializeWith(f, xs[i + 1], fmt)
         IN  IF x.kind = "err" THEN x
             ELSE FillFrom(n, f, xs, fmt, i + 1, Append(buffer, x.val))

\* impl DeserializeWith<[T; N]> for Array<F>: deserialize_tuple(N, ArrayVisitor)
ArrayDeserializeWith(node, dm, fmt) ==
    IF dm.t \in {"tuple", "seq"} THEN FillFrom(node.n, node.f, dm.xs, fmt, 0, <<>>)
    ELSE ErrResult(InvalidType(dm.t, ExpectedArrayLength(node.n)))

\* SeqVisitor::visit_seq: from_fn(next_element through F).collect(); the first
\* error ends the collection.
RECURSIVE SeqVisitSeq(_, _, _, _, _)
SeqVisitSeq(f, xs, fmt, i, acc) ==
    IF i >= Len(xs) THEN OkResult(acc)
    ELSE LET x == DeserializeWith(f, xs[i + 1], fmt)
         IN  IF x.kind = "err" THEN x
             ELSE SeqVisitSeq(f, xs, fmt, i + 1, Append(acc, x.val))

\* impl DeserializeWith<C> for Seq<F>: deserialize_seq(SeqVisitor)
SeqDeserializeWith(node, dm, fmt) ==
    IF dm.t \in {"tuple", "seq"} THEN SeqVisitSeq(node.f, dm.xs, fmt, 0, <<>>)
    ELSE ErrResult(InvalidType(dm.t, "a sequence"))

\* FromIterator for a map: a later entry replaces an earlier one of equal key.
Insert(m, k, x) == [j \in DOMAIN m \cup {k} |-> IF j = k THEN x ELSE m[j]]

\* MapVisitor::visit_map: from_fn(next_entry through F and G).collect()
RECURSIVE MapVisitMap(_, _, _, _, _, _)
MapVisitMap(f, g, es, fmt, i, acc) ==
    IF i >= Len(es) THEN OkResult(acc)
    ELSE LET k == DeserializeWith(f, es[i + 1].k, fmt)
         IN  IF k.kind = "err" THEN k
             ELSE LET x == DeserializeWith(g, es[i + 1].v, fmt)
                  IN  IF x.kind = "err" THEN x
                      ELSE MapVisitMap(f, g, es, fmt, i + 1,
                                       Insert(acc, k.val, x.val))

\* impl DeserializeWith<C> for Map<F, G>: deserialize_map(MapVisitor)
MapDeserializeWith(node, dm, fmt) ==
    IF dm.t = "map" THEN MapVisitMap(node.f, node.g, dm.es, fmt, 0, <<>>)
    ELSE ErrResult(InvalidType(dm.t, "a map"))

\* impl DeserializeWith<Option<T>> for Option<F>:
\* Option<WithEncoding<F, T>>, then map(into_inner)
OptionDeserializeWith(node, dm, fmt) ==
    IF dm.t = "none" THEN OkResult([some |-> FALSE])
    ELSE IF dm.t = "some"
    THEN LET x == DeserializeWith(node.f, dm.x, fmt)
         IN  IF x.kind = "err" THEN x
             ELSE OkResult([some |-> TRUE, x |-> x.val])
    ELSE ErrResult(InvalidType(dm.t, "option"))

\* One field of a struct, through F.
FieldThrough(f, dm, name, fmt) ==
    LET at == {i \in 1..Len(dm.fields) : dm.fields[i].name = name}
    IN  IF at = {} THEN ErrResult([e |-> "missing_field", field |-> name])
        ELSE DeserializeWith(f, dm.fields[CHOOSE i \in at : TRUE].x, fmt)

\* impl DeserializeWith<...> for Range<F>: the std range of WithEncoding<F, T>
\* is deserialized and unwrapped.  A RangeToInclusive comes back from
\* RangeTo { end }; a RangeInclusive is rebuilt with RangeInclusive::new.
RangeDeserializeWith(node, dm, fmt) ==
    IF node.kind = "Bound"
    THEN IF dm.t = "unit_variant" /\ dm.name = "Unbounded"
         THEN OkResult([b |-> "Unbounded"])
         ELSE IF dm.t = "newtype_variant" /\ dm.name \in {"Included", "Excluded"}
         THEN LET x == DeserializeWith(node.f, dm.x, fmt)
              IN  IF x.kind = "err" THEN x
                  ELSE OkResult([b |-> dm.name, x |-> x.val])
         ELSE ErrResult(InvalidType(dm.t, "enum Bound"))
    ELSE IF dm.t # "struct" THEN ErrResult(InvalidType(dm.t, "struct Range"))
    ELSE LET start == FieldThrough(node.f, dm, "start", fmt)
             end == FieldThrough(node.f, dm, "end", fmt)
         IN  CASE node.kind = "Range" ->
                    IF start.kind = "err" THEN start
                    ELSE IF end.kind = "err" THEN end
                    ELSE OkResult([start |-> start.val, end |-> end.val])
               [] node.kind = "RangeFrom" ->
                    IF start.kind = "err" THEN start
                    ELSE OkResult([start |-> start.val])
               [] node.kind \in {"RangeTo", "RangeToInclusive"} ->
                    IF end.kind = "err" THEN end
                    ELSE OkResult([end |-> end.val])
               [] node.kind = "RangeInclusive" ->
                    IF start.kind = "err" THEN start
                    ELSE IF end.kind = "err" THEN end
                    ELSE OkResult([start |-> start.val, end |-> end.val,
                                   exhausted |-> FALSE])

\* impl DeserializeWith<(T0, T1)> for (F0, F1): the tuple of WithEncoding
\* values, then each .value
TupleDeserializeWith(node, dm, fmt) ==
    IF dm.t \notin {"tuple", "seq"}
    THEN ErrResult(InvalidType(dm.t, "a tuple of size 2"))
    ELSE IF Len(dm.xs) < 1
    THEN ErrResult(InvalidLength(0, "a tuple of size 2"))
    ELSE LET x == DeserializeWith(node.f, dm.xs[1], fmt)
         IN  IF x.kind = "err" THEN x
             ELSE IF Len(dm.xs) < 2
             THEN ErrResult(InvalidLength(1, "a tuple of size 2"))
             ELSE LET y == DeserializeWith(node.g, dm.xs[2], fmt)
                  IN  IF y.kind = "err" THEN y
                      ELSE OkResult(<<x.val, y.val>>)

\* impl DeserializeWith<Wrapping<T>> for Wrapping<F>
WrappingDeserializeWith(node, dm, fmt) ==
    LET x == DeserializeWith(node.f, dm, fmt)
    IN  IF x.kind = "err" THEN x ELSE OkResult([wrapped |-> x.val])

\* trait DeserializeWith, dispatched on the adapter
DeserializeWith(node, dm, fmt) ==
    CASE node.a = "Str" -> StrDeserializeWith(node, dm)
      [] node.a = "Bytes" -> BytesDeserialize(node, dm, fmt)
      [] node.a = "Array" -> ArrayDeserializeWith(node, dm, fmt)
      [] node.a = "Seq" -> SeqDeserializeWith(node, dm, fmt)
      [] node.a = "Map" -> MapDeserializeWith(node, dm, fmt)
      [] node.a = "Option" -> OptionDeserializeWith(node, dm, fmt)
      [] node.a = "Range" -> RangeDeserializeWith(node, dm, fmt)
      [] node.a = "Tuple" -> TupleDeserializeWith(node, dm, fmt)
      [] node.a = "Wrapping" -> WrappingDeserializeWith(node, dm, fmt)

(***************************************************************************)
(* A value is encoded through an adapter and the encoding is decoded       *)
(* through the same adapter (test_utils::check_serialization).             *)
(***************************************************************************)
NoWire == [t |-> "unwritten"]

\* let actual = to_value(&x)
RoundTripSerialize ==
    /\ mode = "roundtrip"
    /\ rpc = "serialize"
    /\ wire' = SerializeWith(rtNode, rtValue)
    /\ rpc' = "deserialize"
    /\ UNCHANGED <<notRt, rtNode, rtValue, rtFormat,
                   decoded>>

\* let deserialized = from_value::<T>(actual)
RoundTripDeserialize ==
    /\ mode = "roundtrip"
    /\ rpc = "deserialize"
    /\ decoded' = DeserializeWith(rtNode, wire, rtFormat)
    /\ rpc' = "done"
    /\ UNCHANGED <<notRt, rtNode, rtValue, rtFormat,
                   wire>>

(***************************************************************************)
(* The snapshot adapters Mutex<F>, RwLock<F> and Cell<F> (Cell and RefCell). *)
(***************************************************************************)
Locks == {"Mutex", "RwLock"}

\* A guard with exclusive access is alive: a MutexGuard, a RwLockWriteGuard
\* or a RefMut.
ExclusivelyHeld == selfGuard = "write" \/ holder = "write"

\* A guard with shared access is alive: a RwLockReadGuard or a Ref.
SharedHeld == selfGuard = "read" \/ holder = "read" \/ encGuard

Free == ~ExclusivelyHeld /\ ~SharedHeld

\* Mutant of TryAcquire: access is taken whatever guards are alive.
UncheckedAcquire(kind, exclusive, writerWaiting, isPoisoned) == {"acquired"}

\* Mutant of TryAcquire: try_write() in place of try_read(); readers are in the way.
TryAcquireExclusive(kind, exclusive, writerWaiting, isPoisoned) ==
    IF exclusive \/ SharedHeld THEN {IF kind = "RefCell" THEN "borrow_error" ELSE "would_block"}
    ELSE IF isPoisoned /\ kind # "RefCell" THEN {"poisoned"} ELSE {"acquired"}

\* Mutant of TryAcquire: a poisoned lock is taken all the same.
TryAcquireIgnoringPoison(kind, exclusive, writerWaiting, isPoisoned) ==
    IF exclusive THEN {IF kind = "RefCell" THEN "borrow_error" ELSE "would_block"}
    ELSE {"acquired"}

\* Mutant of TryAcquire: lock() / read() / borrow() in place of the try_ form;
\* on a resource held exclusively the caller waits (or, for a RefCell, panics).
BlockingAcquire(kind, exclusive, writerWaiting, isPoisoned) ==
    IF exclusive THEN {"waits"}
    ELSE IF isPoisoned THEN {"poisoned"} ELSE {"acquired"}

\* The outcomes of value.try_lock() (Mutex), value.try_read() (RwLock) and
\* value.try_borrow() (RefCell).  None of them waits.  A lock that cannot be
\* taken is WouldBlock; a lock that can be taken but is poisoned is Poisoned.
\* Whether try_read succeeds beside a queued writer is up to the platform's
\* lock.
TryAcquire(kind, exclusive, writerWaiting, isPoisoned) ==
    CASE kind = "Mutex" ->
           IF exclusive THEN {"would_block"}
           ELSE IF isPoisoned THEN {"poisoned"} ELSE {"acquired"}
      [] kind = "RwLock" ->
           IF exclusive THEN {"would_block"}
           ELSE {IF isPoisoned THEN "poisoned" ELSE "acquired"}
                  \cup (IF writerWaiting THEN {"would_block"} ELSE {})
      [] kind = "RefCell" ->
           IF exclusive THEN {"borrow_error"} ELSE {"acquired"}

\* The error F returns when it fails.
InnerFailure == [e |-> "inner"]

\* What F::serialize_with emits for a value.
InnerPayload(v) == [op |-> "inner", via |-> "F", val |-> v]

\* value.try_lock() / try_read() / try_borrow(), then map_err(S::Error::custom)?
SnapshotAcquire ==
    /\ mode = "snapshot"
    /\ wOp = "encode"
    /\ wpc = "start"
    /\ wKind # "Cell"
    /\ attempts' = attempts + 1
    /\ \E o \in TryAcquire(wKind, ExclusivelyHeld, holder = "waiting", poisoned) :
           /\ encGuard' = (o = "acquired")
           /\ wpc' = IF o = "acquired" THEN "inner"
                     ELSE IF o = "waits" THEN "waiting" ELSE "done"
           /\ wresult' = IF o \in {"acquired", "waits"} THEN wresult
                         ELSE ErrResult(Custom(o))
    /\ UNCHANGED <<notSnap, wKind, wOp, wExists, wValue, selfGuard, holder,
                   poisoned, innerFails, decodedInner, innerCalls, snapshot>>

\* impl SerializeWith<core::cell::Cell<T>> for Cell<F>: value.get()
CellGet ==
    /\ mode = "snapshot"
    /\ wOp = "encode"
    /\ wpc = "start"
    /\ wKind = "Cell"
    /\ snapshot' = wValue
    /\ wpc' = "inner"
    /\ UNCHANGED <<notSnap, wKind, wOp, wExists, wValue, selfGuard, holder,
                   poisoned, innerFails, decodedInner, encGuard, attempts,
                   innerCalls, wresult>>

\* Mutant of SnapshotInner: the guard outlives the call.
SnapshotInnerLeaks ==
    /\ mode = "snapshot"
    /\ wOp = "encode"
    /\ wpc = "inner"
    /\ innerCalls' = innerCalls + 1
    /\ snapshot' = (IF wKind = "Cell" THEN snapshot ELSE wValue)
    /\ wresult' = IF innerFails THEN ErrResult(InnerFailure)
                  ELSE OkResult(InnerPayload(snapshot'))
    /\ wpc' = "done"
    /\ UNCHANGED <<notSnap, wKind, wOp, wExists, wValue, selfGuard, holder,
                   poisoned, innerFails, decodedInner, attempts, encGuard>>

\* F::serialize_with(&*guard, serializer); the guard is dropped on return
SnapshotInner ==
    /\ mode = "snapshot"
    /\ wOp = "encode"
    /\ wpc = "inner"
    /\ innerCalls' = innerCalls + 1
    /\ LET seen == IF wKind = "Cell" THEN snapshot ELSE wValue
       IN  /\ snapshot' = seen
           /\ wresult' = IF innerFails THEN ErrResult(InnerFailure)
                         ELSE OkResult(InnerPayload(seen))
    /\ encGuard' = FALSE
    /\ wpc' = "done"
    /\ UNCHANGED <<notSnap, wKind, wOp, wExists, wValue, selfGuard, holder,
                   poisoned, innerFails, decodedInner, attempts>>

\* Mutant of NewWrapper: the wrapper comes back held.
NewWrapperHeld(v) ==
    [value |-> v, selfGuard |-> "write", holder |-> "idle", poisoned |-> FALSE]

\* std::sync::Mutex::new / RwLock::new / Into::into (Cell::from, RefCell::from)
NewWrapper(v) ==
    [value |-> v, selfGuard |-> "none", holder |-> "idle", poisoned |-> FALSE]

\* F::deserialize_with(deserializer).map(Mutex::new)
SnapshotDecode ==
    /\ mode = "snapshot"
    /\ wOp = "decode"
    /\ wpc = "start"
    /\ innerCalls' = innerCalls + 1
    /\ IF innerFails
       THEN /\ wresult' = ErrResult(InnerFailure)
            /\ wpc' = "done"
            /\ UNCHANGED <<wExists, wValue, selfGuard, holder, poisoned>>
       ELSE /\ wresult' = OkResult(wKind)
            /\ wpc' = "built"
            /\ wExists' = TRUE
            /\ wValue' = NewWrapper(decodedInner).value
            /\ selfGuard' = NewWrapper(decodedInner).selfGuard
            /\ holder' = NewWrapper(decodedInner).holder
            /\ poisoned' = NewWrapper(decodedInner).poisoned
    /\ UNCHANGED <<notSnap, wKind, wOp, innerFails, decodedInner, encGuard,
                   attempts, snapshot>>

\* The caller uses the decoded wrapper at once: lock().unwrap() / read().unwrap()
\* / borrow() / get()
UseDecoded ==
    /\ mode = "snapshot"
    /\ wOp = "decode"
    /\ wpc = "built"
    /\ Free
    /\ ~poisoned
    /\ selfGuard' = IF wKind = "Cell" THEN "none"
                    ELSE IF wKind = "Mutex" THEN "write" ELSE "read"
    /\ snapshot' = wValue
    /\ wpc' = "done"
    /\ UNCHANGED <<notSnap, wKind, wOp, wExists, wValue, holder, poisoned,
                   innerFails, decodedInner, encGuard, attempts, innerCalls,
                   wresult>>

\* Another thread that shares the lock the encoder is given.
HolderActs == mode = "snapshot" /\ wOp = "encode" /\ wKind \in Locks

\* lock() / write() on a free lock
HolderLock ==
    /\ HolderActs
    /\ holder = "idle"
    /\ Free
    /\ holder' = "write"
    /\ UNCHANGED <<notSnap, wKind, wOp, wExists, wValue, selfGuard, poisoned,
                   innerFails, decodedInner, encGuard, wpc, attempts, innerCalls,
                   snapshot, wresult>>

\* lock() / write() on a lock that is not free: the thread blocks
HolderBlocks ==
    /\ HolderActs
    /\ holder = "idle"
    /\ ~Free
    /\ holder' = "waiting"
    /\ UNCHANGED <<notSnap, wKind, wOp, wExists, wValue, selfGuard, poisoned,
                   innerFails, decodedInner, encGuard, wpc, attempts, innerCalls,
                   snapshot, wresult>>

\* a blocked lock() / write() returns once the lock is free
HolderWakes ==
    /\ HolderActs
    /\ holder = "waiting"
    /\ Free
    /\ holder' = "write"
    /\ UNCHANGED <<notSnap, wKind, wOp, wExists, wValue, selfGuard, poisoned,
                   innerFails, decodedInner, encGuard, wpc, attempts, innerCalls,
                   snapshot, wresult>>

\* read() on a RwLock no one holds exclusively
HolderRead ==
    /\ HolderActs
    /\ wKind = "RwLock"
    /\ holder = "idle"
    /\ ~ExclusivelyHeld
    /\ holder' = "read"
    /\ UNCHANGED <<notSnap, wKind, wOp, wExists, wValue, selfGuard, poisoned,
                   innerFails, decodedInner, encGuard, wpc, attempts, innerCalls,
                   snapshot, wresult>>

\* a store through the other thread's exclusive guard
HolderStore ==
    /\ HolderActs
    /\ holder = "write"
    /\ \E v \in Vals \ {wValue} : wValue' = v
    /\ UNCHANGED <<notSnap, wKind, wOp, wExists, selfGuard, holder, poisoned,
                   innerFails, decodedInner, encGuard, wpc, attempts, innerCalls,
                   snapshot, wresult>>

\* the other thread drops its guard
HolderUnlock ==
    /\ HolderActs
    /\ holder \in {"write", "read"}
    /\ holder' = "idle"
    /\ UNCHANGED <<notSnap, wKind, wOp, wExists, wValue, selfGuard, poisoned,
                   innerFails, decodedInner, encGuard, wpc, attempts, innerCalls,
                   snapshot, wresult>>

\* the other thread panics while it holds the lock exclusively
HolderPanics ==
    /\ HolderActs
    /\ holder = "write"
    /\ holder' = "idle"
    /\ poisoned' = TRUE
    /\ UNCHANGED <<notSnap, wKind, wOp, wExists, wValue, selfGuard,
                   innerFails, decodedInner, encGuard, wpc, attempts, innerCalls,
                   snapshot, wresult>>

\* After the encode returned, the calling thread stores through the exclusive
\* guard (or RefMut) it has held all along.
SelfStore ==
    /\ mode = "snapshot"
    /\ wOp = "encode"
    /\ wpc = "done"
    /\ selfGuard = "write"
    /\ \E v \in Vals \ {wValue} : wValue' = v
    /\ UNCHANGED <<notSnap, wKind, wOp, wExists, selfGuard, holder, poisoned,
                   innerFails, decodedInner, encGuard, wpc, attempts, innerCalls,
                   snapshot, wresult>>

\* After the encode returned, the calling thread drops its own guard.
SelfRelease ==
    /\ mode = "snapshot"
    /\ wOp = "encode"
    /\ wpc = "done"
    /\ selfGuard # "none"
    /\ selfGuard' = "none"
    /\ UNCHANGED <<notSnap, wKind, wOp, wExists, wValue, holder, poisoned,
                   innerFails, decodedInner, encGuard, wpc, attempts, innerCalls,
                   snapshot, wresult>>

(***************************************************************************)
(* Fold<T, A, F>: a sequence decoded into the fold of its elements.        *)
(***************************************************************************)
\* A::default()
FoldDefault(kind) == IF kind = "i8" THEN 0 ELSE [zero |-> TRUE]

\* acc + x overflows the accumulator's integer type.
Overflows(kind, a, x) == kind = "i8" /\ (a + x > 127 \/ a + x < -128)

\* Two's-complement wrapping into i8.
WrapI8(n) == ((n + 128) % 256) - 128

\* Mutant of FoldAdd: the operands are swapped.
FoldAddSwapped(kind, a, x) ==
    IF kind = "i8" THEN WrapI8(a + x) ELSE [l |-> [leaf |-> x], r |-> a]

\* acc + x, by A's impl Add<T>: integer addition (wrapping when the build has
\* no overflow checks), or the term that records both operands in order.
FoldAdd(kind, a, x) ==
    IF kind = "i8" THEN WrapI8(a + x) ELSE [l |-> a, r |-> [leaf |-> x]]

\* try_fold(A::default(), ..)
FoldBegin ==
    /\ mode = "fold"
    /\ fpc = "visit_seq"
    /\ accum' = FoldDefault(fKind)
    /\ fpc' = "fold"
    /\ UNCHANGED <<notFold, fKind, fBuild, fSource, fRequests, fresult>>

\* next_element is Some(x) and F decoded it: acc + x.into_inner()
FoldStep ==
    /\ mode = "fold"
    /\ fpc = "fold"
    /\ fRequests < Len(fSource)
    /\ fSource[fRequests + 1].kind = "ok"
    /\ ~(fBuild = "debug" /\ Overflows(fKind, accum, fSource[fRequests + 1].val))
    /\ accum' = FoldAdd(fKind, accum, fSource[fRequests + 1].val)
    /\ fRequests' = fRequests + 1
    /\ UNCHANGED <<notFold, fKind, fBuild, fSource, fpc, fresult>>

\* acc + x with overflow checks on: the addition panics
FoldOverflowPanics ==
    /\ mode = "fold"
    /\ fpc = "fold"
    /\ fRequests < Len(fSource)
    /\ fSource[fRequests + 1].kind = "ok"
    /\ fBuild = "debug"
    /\ Overflows(fKind, accum, fSource[fRequests + 1].val)
    /\ fRequests' = fRequests + 1
    /\ fresult' = [kind |-> "panic"]
    /\ fpc' = "done"
    /\ UNCHANGED <<notFold, fKind, fBuild, fSource, accum>>

\* Mutant of FoldElementError: the failing element is skipped and the fold goes on.
FoldElementErrorSkipped ==
    /\ mode = "fold"
    /\ fpc = "fold"
    /\ fRequests < Len(fSource)
    /\ fSource[fRequests + 1].kind = "err"
    /\ fRequests' = fRequests + 1
    /\ UNCHANGED <<notFold, fKind, fBuild, fSource, accum, fpc, fresult>>

\* next_element (or F) fails: x? ends try_fold with the error
FoldElementError ==
    /\ mode = "fold"
    /\ fpc = "fold"
    /\ fRequests < Len(fSource)
    /\ fSource[fRequests + 1].kind = "err"
    /\ fRequests' = fRequests + 1
    /\ fresult' = ErrResult(ElementError(fSource[fRequests + 1].err))
    /\ fpc' = "done"
    /\ UNCHANGED <<notFold, fKind, fBuild, fSource, accum>>

\* next_element is None: try_fold returns Ok(accum)
FoldEnd ==
    /\ mode = "fold"
    /\ fpc = "fold"
    /\ fRequests = Len(fSource)
    /\ fRequests' = fRequests + 1
    /\ fresult' = OkResult(accum)
    /\ fpc' = "done"
    /\ UNCHANGED <<notFold, fKind, fBuild, fSource, accum>>

(***************************************************************************)
(* HumanOr<F, G>, with F = Str and G = Id over i8.                         *)
(***************************************************************************)
MaxCalls == 3

DmI8(n) == [t |-> "i8", n |-> n]

\* impl SerializeWith<T> for Id: Serialize::serialize(value, serializer)
IdSerializeWith(v) == DmI8(v)

\* impl DeserializeWith<'de, T> for Id: Deserialize::deserialize(deserializer)
IdDeserializeWith(dm) ==
    IF dm.t = "i8" THEN OkResult(dm.n) ELSE ErrResult(InvalidType(dm.t, "i8"))

\* Mutant of Route: the branches are exchanged.
RouteSwapped(human) == IF human THEN "G" ELSE "F"

\* if serializer.is_human_readable() { F } else { G }
Route(human) == IF human THEN "F" ELSE "G"

\* What the inner adapter named by which returns for this call.
Inner(which, op, arg) ==
    IF op = "serialize"
    THEN OkResult(IF which = "F" THEN StrSerializeWith(arg) ELSE IdSerializeWith(arg))
    ELSE IF which = "F" THEN StrDeserializeWith(StrNode("i8"), arg)
    ELSE IdDeserializeWith(arg)

HumanValues == {-7, 33}

HumanInputs == {DmStr(Display(v)) : v \in HumanValues} \cup {DmI8(v) : v \in HumanValues}

\* HumanOr::serialize_with(value, serializer) is called
HumanOrSerializeCall ==
    /\ mode = "human"
    /\ hpc = "idle"
    /\ Len(hLog) < MaxCalls
    /\ hOp' = "serialize"
    /\ hHuman' \in BOOLEAN
    /\ hArg' \in HumanValues
    /\ hpc' = "is_human_readable"
    /\ UNCHANGED <<notHuman, hLog>>

\* HumanOr::deserialize_with(deserializer) is called
HumanOrDeserializeCall ==
    /\ mode = "human"
    /\ hpc = "idle"
    /\ Len(hLog) < MaxCalls
    /\ hOp' = "deserialize"
    /\ hHuman' \in BOOLEAN
    /\ hArg' \in HumanInputs
    /\ hpc' = "is_human_readable"
    /\ UNCHANGED <<notHuman, hLog>>

\* the branch on is_human_readable()
HumanOrBranch ==
    /\ mode = "human"
    /\ hpc = "is_human_readable"
    /\ hpc' = Route(hHuman)
    /\ UNCHANGED <<notHuman, hOp, hHuman, hArg, hLog>>

\* F::serialize_with / F::deserialize_with, returned as is
HumanOrF ==
    /\ mode = "human"
    /\ hpc = "F"
    /\ hLog' = Append(hLog, [op |-> hOp, human |-> hHuman, arg |-> hArg,
                             adapter |-> "F", result |-> Inner("F", hOp, hArg)])
    /\ hpc' = "idle"
    /\ UNCHANGED <<notHuman, hOp, hHuman, hArg>>

\* G::serialize_with / G::deserialize_with, returned as is
HumanOrG ==
    /\ mode = "human"
    /\ hpc = "G"
    /\ hLog' = Append(hLog, [op |-> hOp, human |-> hHuman, arg |-> hArg,
                             adapter |-> "G", result |-> Inner("G", hOp, hArg)])
    /\ hpc' = "idle"
    /\ UNCHANGED <<notHuman, hOp, hHuman, hArg>>

(***************************************************************************)
(* WithEncoding<F, T>: a value bundled with the adapter that encodes it.   *)
(***************************************************************************)
IdNode == [a |-> "Id"]

\* F::serialize_with(value, serializer)
WithSerialize(f, v, refused) ==
    IF refused THEN ErrResult(SinkError("value"))
    ELSE OkResult(IF f.a = "Id" THEN IdSerializeWith(v) ELSE SerializeWith(f, v))

\* F::deserialize_with(deserializer)
WithDeserialize(f, dm) ==
    IF f.a = "Id" THEN IdDeserializeWith(dm) ELSE DeserializeWith(f, dm, "owned")

\* Mutant of From: the value is replaced by the default.
FromDefault(f, v) == [encoding |-> f, value |-> 0]

\* impl From<T> for WithEncoding<F, T>
From(f, v) == [encoding |-> f, value |-> v]

\* WithEncoding::into_inner
IntoInner(b) == b.value

\* WithEncoding::from(value)
WithEncodingFrom ==
    /\ mode = "binder"
    /\ wepc = "from"
    /\ binder' = <<From(weF, weValue)>>
    /\ wepc' = weOp
    /\ UNCHANGED <<notWe, weF, weOp, weValue, weInput, weSinkFails, weresult>>

\* binder.into_inner()
WithEncodingIntoInner ==
    /\ mode = "binder"
    /\ wepc = "into_inner"
    /\ weresult' = OkResult(IntoInner(binder[1]))
    /\ binder' = <<>>
    /\ wepc' = "done"
    /\ UNCHANGED <<notWe, weF, weOp, weValue, weInput, weSinkFails>>

\* impl Serialize for WithEncoding<F, T>
WithEncodingSerialize ==
    /\ mode = "binder"
    /\ wepc = "serialize"
    /\ weresult' = WithSerialize(weF, binder[1].value, weSinkFails)
    /\ wepc' = "done"
    /\ UNCHANGED <<notWe, weF, weOp, weValue, weInput, weSinkFails, binder>>

\* impl Deserialize for WithEncoding<F, T>
WithEncodingDeserialize ==
    /\ mode = "binder"
    /\ wepc = "deserialize"
    /\ LET r == WithDeserialize(weF, weInput)
       IN /\ weresult' = (IF r.kind = "ok" THEN OkResult(From(weF, r.val)) ELSE r)
          /\ binder' = (IF r.kind = "ok" THEN <<From(weF, r.val)>> ELSE <<>>)
    /\ wepc' = "done"
    /\ UNCHANGED <<notWe, weF, weOp, weValue, weInput, weSinkFails>>

(***************************************************************************)
(* TryFrom<T, F> (decode, T = u32 to char) and TryInto<T, F> (encode, u32   *)
(* to T = u8), with F = Id.                                                *)
(***************************************************************************)
DmU32(n) == [t |-> "u32", n |-> n]
DmU8(n) == [t |-> "u8", n |-> n]

\* Deserialize for u32, through Id
U32Deserialize(dm) ==
    IF dm.t = "u32" THEN OkResult(dm.n) ELSE ErrResult(InvalidType(dm.t, "u32"))

\* Mutant of CharTryFrom: surrogates are let through.
CharTryFromUnchecked(n) == OkResult([char |-> n])

\* char::try_from(u32): the surrogates and what lies past 0x10FFFF are no char
CharTryFrom(n) ==
    IF (n >= 55296 /\ n <= 57343) \/ n > 1114111
    THEN ErrResult("converted integer out of range for char")
    ELSE OkResult([char |-> n])

\* Mutant of U8TryFrom: the value is truncated instead of refused.
U8TryFromTruncating(n) == OkResult(n % 256)

\* u8::try_from(u32)
U8TryFrom(n) ==
    IF n > 255 THEN ErrResult("out of range integral type conversion attempted")
    ELSE OkResult(n)

\* F::deserialize_with(deserializer)?
TryFromInner ==
    /\ mode = "convert"
    /\ cvpc = "try_from"
    /\ cvInnerCalls' = cvInnerCalls + 1
    /\ LET r == U32Deserialize(cvInput)
       IN IF r.kind = "ok"
          THEN /\ cvpc' = "try_into"
               /\ cvresult' = r
          ELSE /\ cvpc' = "done"
               /\ cvresult' = r
    /\ UNCHANGED <<notCv, cvOp, cvInput, cvValue, cvSinkFails, cvConversions, cvSink>>

\* .try_into().map_err(serde::de::Error::custom)
TryFromConvert ==
    /\ mode = "convert"
    /\ cvOp = "try_from"
    /\ cvpc = "try_into"
    /\ cvConversions' = cvConversions + 1
    /\ LET c == CharTryFrom(cvresult.val)
       IN cvresult' = (IF c.kind = "ok" THEN c ELSE ErrResult(Custom(c.err)))
    /\ cvpc' = "done"
    /\ UNCHANGED <<notCv, cvOp, cvInput, cvValue, cvSinkFails, cvInnerCalls, cvSink>>

\* value.clone().try_into().map_err(serde::ser::Error::custom)?
TryIntoConvert ==
    /\ mode = "convert"
    /\ cvpc = "clone_try_into"
    /\ cvConversions' = cvConversions + 1
    /\ LET c == U8TryFrom(cvValue)
       IN IF c.kind = "ok"
          THEN /\ cvpc' = "serialize_with"
               /\ cvresult' = c
          ELSE /\ cvpc' = "done"
               /\ cvresult' = ErrResult(Custom(c.err))
    /\ UNCHANGED <<notCv, cvOp, cvInput, cvValue, cvSinkFails, cvInnerCalls, cvSink>>

\* F::serialize_with(&converted, serializer)
TryIntoInner ==
    /\ mode = "convert"
    /\ cvpc = "serialize_with"
    /\ cvInnerCalls' = cvInnerCalls + 1
    /\ IF cvSinkFails
       THEN /\ cvresult' = ErrResult(SinkError("u8"))
            /\ cvSink' = cvSink
       ELSE /\ cvresult' = OkResult(DmU8(cvresult.val))
            /\ cvSink' = Append(cvSink, DmU8(cvresult.val))
    /\ cvpc' = "done"
    /\ UNCHANGED <<notCv, cvOp, cvInput, cvValue, cvSinkFails, cvConversions>>

(***************************************************************************)
(* SeqVisitor::visit_seq and MapVisitor::visit_map, one pull at a time.    *)
(***************************************************************************)
\* FromIterator of the target collection, one item further.
Extend(kind, c, x) == IF kind = "Seq" THEN Append(c, x) ELSE Insert(c, x[1], x[2])

\* next_element / next_entry is Ok(Some(x)): the item goes to the collection
CollectPush ==
    /\ mode = "collect"
    /\ cpc = "collect"
    /\ cRequests < Len(cSource)
    /\ cSource[cRequests + 1].kind = "ok"
    /\ collected' = Extend(cKind, collected, cSource[cRequests + 1].val)
    /\ cRequests' = cRequests + 1
    /\ UNCHANGED <<notCol, cKind, cSource, cpc, cresult>>

\* next_element / next_entry is Err(e): collect() ends with Err(e)
CollectError ==
    /\ mode = "collect"
    /\ cpc = "collect"
    /\ cRequests < Len(cSource)
    /\ cSource[cRequests + 1].kind = "err"
    /\ cresult' = ErrResult(ElementError(cSource[cRequests + 1].err))
    /\ collected' = <<>>
    /\ cRequests' = cRequests + 1
    /\ cpc' = "done"
    /\ UNCHANGED <<notCol, cKind, cSource>>

\* next_element / next_entry is Ok(None): collect() ends with Ok(collection)
CollectEnd ==
    /\ mode = "collect"
    /\ cpc = "collect"
    /\ cRequests = Len(cSource)
    /\ cresult' = OkResult(collected)
    /\ cRequests' = cRequests + 1
    /\ cpc' = "done"
    /\ UNCHANGED <<notCol, cKind, cSource, collected>>

(***************************************************************************)
(* Calls of SerializeWith::serialize_with and                              *)
(* DeserializeWith::deserialize_with made one after another, with Str over *)
(* i8 and Map<Id, Id> over BTreeMap<u8, u8> and HashMap<u8, u8>.           *)
(***************************************************************************)
I8Value(n) == [kind |-> "i8", n |-> n]

\* A map value: its entries, and the order (&map).into_iter() yields its keys
\* in: ascending for a BTreeMap, the table's order for a HashMap.
MapValue(kind, entries, order) == [kind |-> kind, entries |-> entries, order |-> order]

\* The orders a freshly built map of this kind can iterate in.
Orders(kind, entries) ==
    LET keys == DOMAIN entries
        perms == {p \in [1..Cardinality(keys) -> keys] :
                      \A i, j \in 1..Cardinality(keys) : p[i] = p[j] => i = j}
    IN  IF kind = "BTreeMap"
        THEN {p \in perms : \A i, j \in 1..Cardinality(keys) : i < j => p[i] < p[j]}
        ELSE perms

\* container.into_iter().map(|(k, v)| (from(k), from(v))), as collect_map takes it
EntriesInOrder(c) ==
    [i \in 1..Len(c.order) |-> [k |-> DmU8(c.order[i]), v |-> DmU8(c.entries[c.order[i]])]]

\* Mutant of SerializeCall: what is written depends on the calls made before.
SerializeCallCounting(adapter, arg, refused, before) ==
    IF refused THEN [emitted |-> <<>>, result |-> ErrResult(SinkError("value"))]
    ELSE [emitted |-> <<DmSeq(<<Len(before)>>)>>, result |-> OkResult("ok")]

\* F::serialize_with(value, serializer): what the serializer is handed and what
\* the call returns.  The calls made before are not among what it reads.
SerializeCall(adapter, arg, refused, before) ==
    IF refused THEN [emitted |-> <<>>, result |-> ErrResult(SinkError("value"))]
    ELSE [emitted |-> <<IF adapter = "Str" THEN StrSerializeWith(arg.n)
                        ELSE DmMap(EntriesInOrder(arg))>>,
          result |-> OkResult("ok")]

\* FromIterator for a map over the entries of the input, in order.
RECURSIVE InsertAll(_, _, _)
InsertAll(es, i, m) ==
    IF i >= Len(es) THEN m
    ELSE InsertAll(es, i + 1, Insert(m, es[i + 1].k.n, es[i + 1].v.n))

\* F::deserialize_with(deserializer): the results the call can return.  A
\* HashMap is built with a hasher of its own, which fixes its iteration order.
DeserializeCall(adapter, target, input, before) ==
    IF adapter = "Str"
    THEN LET r == StrDeserializeWith(StrNode("i8"), input)
         IN  {IF r.kind = "ok" THEN OkResult(I8Value(r.val)) ELSE r}
    ELSE IF input.t # "map" THEN {ErrResult(InvalidType(input.t, "a map"))}
    ELSE LET m == InsertAll(input.es, 0, <<>>)
         IN  {OkResult(MapValue(target, m, o)) : o \in Orders(target, m)}

\* The values encoded and the inputs decoded.
CallValues(adapter) ==
    IF adapter = "Str" THEN {I8Value(33), I8Value(-7)}
    ELSE LET both == [k \in {1, 2} |-> k + 2]
             one == [k \in {2} |-> 1]
         IN  UNION {{MapValue(kind, both, o) : o \in Orders(kind, both)} :
                        kind \in {"BTreeMap", "HashMap"}}
               \cup {MapValue("HashMap", one, <<2>>)}

CallInputs(adapter) ==
    IF adapter = "Str" THEN {DmStr(<<51, 51>>), DmNone}
    ELSE {DmMap(<<[k |-> DmU8(2), v |-> DmU8(4)], [k |-> DmU8(1), v |-> DmU8(3)]>>),
          DmMap(<<[k |-> DmU8(1), v |-> DmU8(1)], [k |-> DmU8(1), v |-> DmU8(2)]>>)}

\* one serialize_with call
CallSerialize ==
    /\ mode = "calls"
    /\ Len(calls) < MaxCalls
    /\ \E adapter \in {"Str", "Map"}, refused \in BOOLEAN :
         \E arg \in CallValues(adapter) :
           /\ refused => adapter = "Str"
           /\ LET r == SerializeCall(adapter, arg, refused, calls)
              IN  calls' = Append(calls, [op |-> "serialize", adapter |-> adapter,
                                          target |-> arg.kind, arg |-> arg,
                                          refused |-> refused,
                                          emitted |-> r.emitted, result |-> r.result])
    /\ UNCHANGED notCalls

\* one deserialize_with call
CallDeserialize ==
    /\ mode = "calls"
    /\ Len(calls) < MaxCalls
    /\ \E adapter \in {"Str", "Map"}, target \in {"i8", "BTreeMap", "HashMap"} :
         \E input \in CallInputs(adapter) :
           /\ (adapter = "Str") <=> (target = "i8")
           /\ \E r \in DeserializeCall(adapter, target, input, calls) :
                calls' = Append(calls, [op |-> "deserialize", adapter |-> adapter,
                                        target |-> target, arg |-> input,
                                        refused |-> FALSE,
                                        emitted |-> <<>>, result |-> r])
    /\ UNCHANGED notCalls

(***************************************************************************)
(* Properties of the fixed-array decode.                                   *)
(***************************************************************************)
Returned == mode = "decode" /\ pc \in {"returned", "done"}

AllOk(src) == \A i \in 1..Len(src) : src[i].kind = "ok"

Drops(id) == bufferDrops[id] + ownerDrops[id]

WrittenIds == {written[i] : i \in 1..Len(written)}

\* The array the decode returned, as the values of its elements.
ReturnedValues == [k \in DOMAIN result.val |-> source[result.val[k]].val]

\* C1: whatever stops the fill loop, every populated slot's element is
\* destroyed exactly once (by the buffer's Drop on failure, by the owner of
\* the returned array on success), no unpopulated slot is read or dropped,
\* and a failure on element k < N destroys exactly the first k elements.
C1_PopulatedDestroyedOnce ==
    mode = "decode" =>
        /\ ~uninitTouched
        /\ \A id \in DOMAIN bufferDrops :
              /\ Drops(id) <= 1
              /\ Drops(id) = 1 => id \in WrittenIds
              /\ pc = "done" => (Drops(id) = 1 <=> id \in WrittenIds)
              /\ (Returned /\ result.kind = "err") =>
                    /\ ownerDrops[id] = 0
                    /\ bufferDrops[id] = IF id <= Len(written) THEN 1 ELSE 0
              /\ (Returned /\ result.kind = "ok") =>
                    /\ bufferDrops[id] = 0
                    /\ pc = "done" => ownerDrops[id] = IF id <= N THEN 1 ELSE 0

C1_Witness ==
    /\ mode = "decode"
    /\ pc = "done"
    /\ result.kind = "err"
    /\ result.err.e = "element"
    /\ Len(written) = 2
    /\ Len(written) < N
    /\ bufferDrops[1] = 1
    /\ bufferDrops[2] = 1

\* C2 (state part): while the buffer exists, 0 <= count <= N, exactly the
\* slots below count are initialized, their elements are owned by the buffer
\* alone, and no uninitialized slot has been read, dropped or exposed.
BufferInvariant ==
    (mode = "decode" /\ pc \in {"fill", "check", "drop"}) =>
        /\ count \in 0..N
        /\ Len(items) = N
        /\ ~uninitTouched
        /\ \A k \in 1..N :
              /\ k <= count <=> items[k] # Uninit
              /\ k <= count => Drops(items[k]) = 0

\* C2 (step part): a change of count while filling is a write of an element
\* to slot number count followed by count + 1, and touches no other slot.
WriteStep ==
    (mode = "decode" /\ pc = "fill" /\ pc' = "fill" /\ <<items, count>>' # <<items, count>>) =>
        /\ count' = count + 1
        /\ items[count + 1] = Uninit
        /\ items'[count + 1] # Uninit
        /\ \A k \in 1..N : k # count + 1 => items'[k] = items[k]

\* C2: in every reachable state of the build buffer 0 <= count <= N, slots
\* [0, count) are initialized and owned by the buffer, slots [count, N) are
\* uninitialized and never read, dropped or exposed; each successful write
\* initializes slot number count and then increments count by exactly 1.
C2_BufferInvariant == [](BufferInvariant) /\ [][WriteStep]_vars

C2_Witness ==
    /\ mode = "decode"
    /\ pc = "fill"
    /\ count = 2
    /\ N = 3
    /\ items[2] # Uninit
    /\ items[3] = Uninit

\* C3: a source that yields exactly N successfully decoded elements decodes
\* to the array whose element i is the i-th element of the source.
C3_ExactLengthPreservesOrder ==
    (Returned /\ Len(source) = N /\ AllOk(source)) =>
        /\ result.kind = "ok"
        /\ Len(result.val) = N
        /\ \A i \in 1..N : result.val[i] = i
        /\ ReturnedValues = [i \in 1..N |-> source[i].val]

C3_Witness ==
    /\ Returned
    /\ N = 3
    /\ Len(source) = 3
    /\ AllOk(source)
    /\ result.kind = "ok"
    /\ ReturnedValues = <<1, 2, 1>>

\* C4: a source exhausted after m < N successfully decoded elements fails
\* with an invalid-length error whose actual count is m and whose expectation
\* describes an array of length N; no array is returned.
C4_ShortSourceInvalidLength ==
    (Returned /\ Len(source) < N /\ AllOk(source)) =>
        result = [kind |-> "err",
                  err |-> [e |-> "invalid_length",
                           actual |-> Len(source),
                           expected |-> <<"an array of length", N>>]]

C4_Witness ==
    /\ Returned
    /\ N = 3
    /\ Len(source) = 1
    /\ AllOk(source)
    /\ result.kind = "err"
    /\ result.err.e = "invalid_length"
    /\ result.err.actual = 1

\* C5: with N = 0 the decode succeeds with the empty array and requests no
\* element from the source, whatever the source holds.
C5_EmptyArrayNoReads ==
    (mode = "decode" /\ N = 0) =>
        /\ requests = 0
        /\ pos = 0
        /\ pc \in {"drop", "returned", "done"} => result = [kind |-> "ok", val |-> <<>>]

C5_Witness ==
    /\ Returned
    /\ N = 0
    /\ Len(source) = 2
    /\ source[1].kind = "err"
    /\ result.kind = "ok"

\* C6: once fill has written N elements it resets count to 0 and moves the
\* N slots out, so the buffer's Drop destroys nothing and every element is
\* owned by the returned array only.
C6_MoveOutResetsCount ==
    (mode = "decode" /\ pc \in {"drop", "returned", "done"} /\ Len(written) = N) =>
        /\ result.kind = "ok"
        /\ result.val = written
        /\ count = 0
        /\ ~uninitTouched
        /\ \A k \in 1..N : items[k] = Uninit
        /\ \A id \in DOMAIN bufferDrops : bufferDrops[id] = 0

C6_Witness ==
    /\ mode = "decode"
    /\ pc = "done"
    /\ N = 3
    /\ Len(written) = 3
    /\ count = 0
    /\ \A id \in 1..3 : bufferDrops[id] = 0 /\ ownerDrops[id] = 1

\* The position of the first element of the source whose decode fails (0: none).
FirstError(src) ==
    IF AllOk(src) THEN 0
    ELSE CHOOSE j \in 1..Len(src) :
            /\ src[j].kind = "err"
            /\ \A i \in 1..(j - 1) : src[i].kind = "ok"

\* C7: the first element whose decode fails stops the loop: its error is the
\* result of the decode (not a length error), no slot is written for it,
\* count is not incremented for it and no further element is requested.
C7_FirstElementErrorStops ==
    (mode = "decode" /\ FirstError(source) \in 1..N) =>
        /\ requests <= FirstError(source)
        /\ pos <= FirstError(source)
        /\ Len(written) < FirstError(source)
        /\ pc \in {"drop", "returned", "done"} =>
              /\ result = [kind |-> "err",
                           err |-> [e |-> "element",
                                    msg |-> source[FirstError(source)].err]]
              /\ requests = FirstError(source)
              /\ count = FirstError(source) - 1
              /\ written = [i \in 1..(FirstError(source) - 1) |-> i]
              /\ items[FirstError(source)] = Uninit

C7_Witness ==
    /\ Returned
    /\ N = 3
    /\ Len(source) = 4
    /\ FirstError(source) = 2
    /\ source[2].err = "syntax"
    /\ source[3].kind = "err"
    /\ source[3].err = "custom"
    /\ result.kind = "err"
    /\ result.err.e = "element"

(***************************************************************************)
(* Properties of the fixed-array encode.                                   *)
(***************************************************************************)
MinOf(S) == CHOOSE x \in S : \A y \in S : x <= y

\* C8: the encode opens a tuple of declared length N, emits the elements in
\* index order 0..N-1, each through the inner adapter F, and is fail-fast:
\* when F fails on element i the error is returned, no element after i is
\* emitted and the tuple is never ended.
C8_EncodeOrderedFailFast ==
    mode = "encode" =>
        /\ Len(out) >= 1 => out[1] = [op |-> "tuple", len |-> Len(value)]
        /\ \A k \in 2..Len(out) :
              IF k - 1 <= Len(value)
              THEN out[k] = [op |-> "element", index |-> k - 1, via |-> "F",
                             val |-> value[k - 1]]
              ELSE /\ out[k] = [op |-> "end"]
                   /\ k = Len(value) + 2
                   /\ fFails = {}
        /\ (epc = "done" /\ sinkFails # "tuple" /\ fFails # {}) =>
              /\ eresult = [kind |-> "err",
                            err |-> [e |-> "inner", index |-> MinOf(fFails)]]
              /\ Len(out) = 1 + MinOf(fFails)
              /\ \A k \in 1..Len(out) : out[k].op # "end"
        /\ (epc = "done" /\ sinkFails = "none" /\ fFails = {}) =>
              /\ eresult.kind = "ok"
              /\ Len(out) = Len(value) + 2
              /\ out[Len(out)] = [op |-> "end"]

C8_Witness ==
    /\ mode = "encode"
    /\ epc = "done"
    /\ Len(value) = 3
    /\ fFails = {2, 3}
    /\ sinkFails = "none"
    /\ eresult.kind = "err"
    /\ Len(out) = 3

(***************************************************************************)
(* Properties of the round trip.                                           *)
(***************************************************************************)
RoundTripDone == mode = "roundtrip" /\ rpc = "done"

\* The value holds a byte blob whose target type borrows from the decoder's
\* input (&[u8] or &[u8; N]).
RECURSIVE HoldsBorrowedBytes(_, _)
HoldsBorrowedBytes(node, v) ==
    CASE node.a = "Str" -> FALSE
      [] node.a = "Bytes" -> node.ty \in {"slice", "ref_array"}
      [] node.a \in {"Array", "Seq"} ->
           \E i \in 1..Len(v) : HoldsBorrowedBytes(node.f, v[i])
      [] node.a = "Map" ->
           \E k \in DOMAIN v :
               HoldsBorrowedBytes(node.f, k) \/ HoldsBorrowedBytes(node.g, v[k])
      [] node.a = "Option" -> v.some /\ HoldsBorrowedBytes(node.f, v.x)
      [] node.a = "Range" ->
          (CASE node.kind = "Range" ->
                  HoldsBorrowedBytes(node.f, v.start)
                    \/ HoldsBorrowedBytes(node.f, v.end)
             [] node.kind = "RangeInclusive" ->
                  HoldsBorrowedBytes(node.f, v.start)
                    \/ HoldsBorrowedBytes(node.f, v.end)
             [] node.kind = "RangeFrom" -> HoldsBorrowedBytes(node.f, v.start)
             [] node.kind \in {"RangeTo", "RangeToInclusive"} ->
                  HoldsBorrowedBytes(node.f, v.end)
             [] node.kind = "Bound" ->
                  v.b # "Unbounded" /\ HoldsBorrowedBytes(node.f, v.x))
      [] node.a = "Tuple" ->
           HoldsBorrowedBytes(node.f, v[1]) \/ HoldsBorrowedBytes(node.g, v[2])
      [] node.a = "Wrapping" -> HoldsBorrowedBytes(node.f, v.wrapped)

\* The value with every exhausted RangeInclusive replaced by the fresh range
\* of the same bounds.
RECURSIVE Unexhausted(_, _)
Unexhausted(node, v) ==
    CASE node.a \in {"Str", "Bytes"} -> v
      [] node.a \in {"Array", "Seq"} ->
           [i \in 1..Len(v) |-> Unexhausted(node.f, v[i])]
      [] node.a = "Map" -> [k \in DOMAIN v |-> Unexhausted(node.g, v[k])]
      [] node.a = "Option" ->
           IF v.some THEN [some |-> TRUE, x |-> Unexhausted(node.f, v.x)] ELSE v
      [] node.a = "Range" ->
           IF node.kind = "RangeInclusive"
           THEN [start |-> v.start, end |-> v.end, exhausted |-> FALSE]
           ELSE v
      [] node.a = "Tuple" ->
           <<Unexhausted(node.f, v[1]), Unexhausted(node.g, v[2])>>
      [] node.a = "Wrapping" -> [wrapped |-> Unexhausted(node.f, v.wrapped)]

\* C9 as stated: for every adapter and every value of a type it supports,
\* decoding the encoding of the value through the adapter yields a value equal
\* to it.
C9_RoundTripAll ==
    RoundTripDone => (decoded.kind = "ok" /\ decoded.val = rtValue)

\* C9 as amended: for Str on integers, Bytes, Array, Seq, Map, Option, Range,
\* tuples, Wrapping and their compositions, against a decoder that hands back
\* what the encoder was given, the decode of the encoding succeeds with the
\* value itself, with two exceptions.  A value holding a byte blob destined
\* for a borrowing target (&[u8], &[u8; N]) decodes only when the decoder
\* hands blobs back borrowed from its input, and fails with an invalid-type
\* error otherwise.  An exhausted RangeInclusive comes back as the fresh
\* (non-exhausted) range of the same bounds, which compares unequal to it.
C9_RoundTripOwnedOrBorrowedInput ==
    RoundTripDone =>
        IF rtFormat # "borrowed" /\ HoldsBorrowedBytes(rtNode, rtValue)
        THEN decoded.kind = "err" /\ decoded.err.e = "invalid_type"
        ELSE decoded = OkResult(Unexhausted(rtNode, rtValue))

C9_Witness ==
    /\ RoundTripDone
    /\ rtNode = MapNode(StrNode("u8"), StrNode("i8"))
    /\ rtFormat = "seq"
    /\ DOMAIN rtValue = {7, 255}
    /\ rtValue[7] = -128
    /\ rtValue[255] = -7
    /\ wire = DmMap(<<[k |-> DmStr(<<55>>), v |-> DmStr(<<45, 49, 50, 56>>)],
                      [k |-> DmStr(<<50, 53, 53>>), v |-> DmStr(<<45, 55>>)]>>)
    /\ decoded = OkResult(rtValue)

(***************************************************************************)
(* Properties of the byte codec.                                           *)
(***************************************************************************)
\* The number of bytes of one char in UTF-8.
CharWidth(c) == IF c < 128 THEN 1 ELSE IF c < 2048 THEN 2 ELSE 3

RECURSIVE StrByteLen(_)
StrByteLen(str) ==
    IF str = <<>> THEN 0 ELSE CharWidth(Head(str)) + StrByteLen(Tail(str))

\* The length of a source in bytes: of the blob, of the string's UTF-8
\* form, or the number of elements of the sequence.
SourceByteLen(src) ==
    IF src.shape \in StrShapes THEN StrByteLen(src.data) ELSE Len(src.data)

\* A sequence source none of whose elements fails to decode (any other
\* source has no elements to fail).
ErrorFree(src) == src.shape = "seq" => AllOk(src.data)

ArrayDecoded ==
    mode = "bytes" /\ bpc = "done" /\ bTarget = "array" /\ ErrorFree(bSource)

IsInvalidLengthNaming(res, n) ==
    /\ res.kind = "err"
    /\ res.err.e = "invalid_length"
    /\ res.err.expected = <<"a byte array of", n, "bytes">>

\* C10 as stated: the decode into [u8; N] succeeds only for a blob, string
\* or sequence of exactly N bytes, and any source of another length, longer
\* as well as shorter, fails with an invalid-length error naming N.
C10_AnyMismatchFails ==
    ArrayDecoded =>
        IF SourceByteLen(bSource) = bN
        THEN bresult.kind = "ok"
        ELSE IsInvalidLengthNaming(bresult, bN)

\* C10 as amended: a blob or string decodes exactly when it has N bytes and
\* fails otherwise with invalid_length(its length, N); a sequence of fewer
\* than N bytes fails with invalid_length(its length, N); a sequence of N or
\* more bytes decodes to its first N bytes after N requests, the surplus is
\* neither requested nor reported.
C10_MismatchFailsExceptLongSeq ==
    ArrayDecoded =>
        IF bSource.shape = "seq" /\ Len(bSource.data) >= bN
        THEN /\ bresult.kind = "ok"
             /\ bresult.val = [i \in 1..bN |-> bSource.data[i].val]
             /\ brequests = bN
        ELSE IF SourceByteLen(bSource) = bN
        THEN /\ bresult.kind = "ok"
             /\ Len(bresult.val) = bN
             /\ bSource.shape \in BlobShapes => bresult.val = bSource.data
        ELSE /\ IsInvalidLengthNaming(bresult, bN)
             /\ bresult.err.actual = SourceByteLen(bSource)

C10_Witness ==
    /\ ArrayDecoded
    /\ bSource.shape = "str"
    /\ bSource.data = <<65, 233>>
    /\ bN = 2
    /\ bresult.kind = "err"
    /\ bresult.err.actual = 3

BorrowedShapes == {"borrowed_bytes", "borrowed_str"}

\* The bytes a source carries: the blob, the string's UTF-8 form, or the
\* elements of the sequence.
SourceBytes(src) ==
    IF src.shape \in StrShapes THEN AsBytes(src.data)
    ELSE IF src.shape = "seq" THEN [i \in 1..Len(src.data) |-> src.data[i].val]
    ELSE src.data

BorrowedTargetDecoded ==
    mode = "bytes" /\ bpc = "done" /\ bTarget \in {"slice", "ref_array"}

\* C11: the decode into &[u8] or &[u8; N] succeeds only on a borrowed blob or
\* borrowed text, and the result is then the source's own bytes in the
\* source's storage; every other shape (transient or owned blob or string,
\* sequence) fails; into &[u8; N] a borrowed source of another length fails
\* with an invalid-length error giving the actual length against N.
C11_BorrowedTargetsNeedBorrowedSource ==
    BorrowedTargetDecoded =>
        IF bSource.shape \notin BorrowedShapes
        THEN /\ bresult.kind = "err"
             /\ bresult.err.e = "invalid_type"
             /\ bstorage = "none"
        ELSE IF bTarget = "ref_array" /\ SourceByteLen(bSource) # bN
        THEN /\ IsInvalidLengthNaming(bresult, bN)
             /\ bresult.err.actual = SourceByteLen(bSource)
             /\ bstorage = "none"
        ELSE /\ bresult = OkResult(SourceBytes(bSource))
             /\ bstorage = "input"
             /\ brequests = 0

C11_Witness ==
    /\ BorrowedTargetDecoded
    /\ bTarget = "ref_array"
    /\ bN = 2
    /\ bSource = Presented("borrowed_bytes", <<0, 255, 0>>)
    /\ bresult = ErrResult(InvalidLength(3, <<"a byte array of", 2, "bytes">>))

CowDecoded == mode = "bytes" /\ bpc = "done" /\ bTarget = "cow"

\* C12: the decode into Cow<[u8]> returns Borrowed, over the source's own
\* storage, exactly when the source is a borrowed blob or borrowed text, and
\* Owned with equal bytes for a transient or owned blob or string; from a
\* sequence the result is always Owned.
C12_CowBorrowsOnlyBorrowedSources ==
    CowDecoded =>
        IF bSource.shape \in BorrowedShapes
        THEN /\ bresult = OkResult([variant |-> "Borrowed",
                                    bytes |-> SourceBytes(bSource)])
             /\ bstorage = "input"
        ELSE IF bSource.shape \in BlobShapes \cup StrShapes
        THEN /\ bresult = OkResult([variant |-> "Owned",
                                    bytes |-> SourceBytes(bSource)])
             /\ bstorage \in {"moved", "copied"}
        ELSE /\ bSource.shape = "seq"
             /\ bresult.kind = "ok" =>
                    /\ bresult.val.variant = "Owned"
                    /\ bstorage = "collected"
             /\ AllOk(bSource.data) =>
                    bresult = OkResult([variant |-> "Owned",
                                        bytes |-> SourceBytes(bSource)])

C12_Witness ==
    /\ CowDecoded
    /\ bSource = Presented("borrowed_str", <<65, 233>>)
    /\ bresult = OkResult([variant |-> "Borrowed", bytes |-> <<65, 195, 169>>])

VecDecoded == mode = "bytes" /\ bpc = "done" /\ bTarget = "vec"

\* C13: the decode into Vec<u8> accepts a blob, a string or a sequence and
\* returns exactly the source's bytes in order; from a sequence every element
\* up to the end is collected whatever the size hint (none, too small, too
\* large), and the capacity reserved first is min(hint or 0, 4096).
C13_VecCollectsAllWithBoundedCapacity ==
    VecDecoded =>
        /\ bSource.shape # "seq" => bresult = OkResult(SourceBytes(bSource))
        /\ bSource.shape = "seq" =>
               /\ bcapacity = IF bHint = <<>> THEN 0
                              ELSE IF bHint[1] > 4096 THEN 4096 ELSE bHint[1]
               /\ AllOk(bSource.data) =>
                      /\ bresult = OkResult(SourceBytes(bSource))
                      /\ brequests = Len(bSource.data) + 1

C13_Witness ==
    /\ VecDecoded
    /\ bSource = Presented("seq", <<OkItem(255), OkItem(0), OkItem(255)>>)
    /\ bHint = <<5000>>
    /\ bcapacity = 4096
    /\ bresult = OkResult(<<255, 0, 255>>)

ByteVecDecoded == mode = "bytes" /\ bpc = "done" /\ bTarget = "byte_vec"

\* C14: ByteVec decodes a Vec<u8> as Bytes does and then applies the target's
\* fallible conversion: a failed buffer decode is returned with no conversion
\* attempted; a failed conversion is a custom error carrying the conversion's
\* message; otherwise the converted value is returned.
C14_ByteVecDecodeThenConvert ==
    ByteVecDecoded =>
        LET buffer == VecVisitor(bSource).res
        IN  IF buffer.kind = "err"
            THEN bresult = buffer /\ bconversions = 0
            ELSE /\ bconversions = 1
                 /\ IF bConvFails
                    THEN bresult = ErrResult([e |-> "custom",
                                              msg |-> ConversionMessage])
                    ELSE bresult = OkResult(Converted(buffer.val))

C14_Witness ==
    /\ ByteVecDecoded
    /\ bSource = Presented("seq", <<OkItem(0), OkItem(255)>>)
    /\ bConvFails
    /\ bconversions = 1
    /\ bresult = ErrResult([e |-> "custom", msg |-> "conversion failed"])

(***************************************************************************)
(* Properties of the snapshot adapters.                                    *)
(***************************************************************************)
\* The step in which serialize_with makes its acquisition attempt.
AttemptStep ==
    mode = "snapshot" /\ wOp = "encode" /\ wpc = "start" /\ wpc' # "start"

LockAttemptStep == AttemptStep /\ wKind \in Locks

CustomError(res) == res.kind = "err" /\ res.err.e = "custom"

\* The encoder never waits, attempts at most once, and an encode that ended
\* in the acquisition's error never called the inner adapter.
NoWaitNoRetry ==
    (mode = "snapshot" /\ wOp = "encode") =>
        /\ wpc # "waiting"
        /\ attempts <= 1
        /\ (wKind # "Cell" /\ wpc # "start") => attempts = 1
        /\ (wpc = "done" /\ CustomError(wresult)) => innerCalls = 0

\* C15 as stated: the encode of a lock attempts once without blocking, and if
\* the lock is held at that moment, by whoever and however, it returns a
\* custom error at once without calling the inner adapter; the encoder never
\* waits on the lock.
C15_HeldLockAlwaysFails ==
    /\ [](NoWaitNoRetry)
    /\ [][LockAttemptStep =>
             /\ attempts' = attempts + 1
             /\ (ExclusivelyHeld \/ SharedHeld) =>
                    /\ wpc' = "done"
                    /\ CustomError(wresult')
                    /\ innerCalls' = 0]_vars

\* C15 as amended: the encode of a Mutex or RwLock makes exactly one
\* acquisition attempt and never waits.  If the lock is held exclusively at
\* that moment (a locked Mutex, a write-locked RwLock, by another thread or
\* by the encoding thread) the encode returns a custom error at once and the
\* inner adapter is not called; the same holds whenever the attempt fails
\* for another reason (a poisoned lock, a try_read refused beside a queued
\* writer).  A RwLock held only by readers does not make the encode fail: the
\* attempt takes shared access and the inner adapter runs.
C15_ExclusivelyHeldLockFails ==
    /\ [](NoWaitNoRetry)
    /\ [][LockAttemptStep =>
             /\ attempts' = attempts + 1
             /\ wpc' \in {"inner", "done"}
             /\ ExclusivelyHeld => wpc' = "done"
             /\ wpc' = "done" =>
                    /\ CustomError(wresult')
                    /\ innerCalls' = 0
                    /\ ~encGuard'
             /\ (~ExclusivelyHeld /\ ~poisoned /\ holder # "waiting") =>
                    wpc' = "inner" /\ encGuard']_vars

C15_Witness ==
    /\ mode = "snapshot"
    /\ wOp = "encode"
    /\ wKind = "Mutex"
    /\ selfGuard = "write"
    /\ wpc = "done"
    /\ wresult = ErrResult([e |-> "custom", msg |-> "would_block"])
    /\ attempts = 1
    /\ innerCalls = 0

\* The step in which the inner adapter encodes the guarded value.
InnerStep ==
    mode = "snapshot" /\ wOp = "encode" /\ wpc = "inner" /\ wpc' = "done"

\* A decode that succeeded left a wrapper holding the decoded value with no
\* guard alive and no poison, so that it can be locked or read at once; the
\* value read back is the decoded one.
DecodedIsFresh ==
    (mode = "snapshot" /\ wOp = "decode") =>
        /\ wpc = "built" =>
               /\ wresult.kind = "ok"
               /\ wExists
               /\ wValue = decodedInner
               /\ Free
               /\ ~poisoned
               /\ ENABLED UseDecoded
        /\ (wpc = "done" /\ wresult.kind = "ok") => snapshot = decodedInner
        /\ (wpc = "done" /\ wresult.kind = "err") => (innerFails /\ ~wExists)
        /\ (wpc # "start" /\ ~innerFails) => wresult.kind = "ok"

\* While serialize_with holds its guard (or its copy) the value does not change.
StableWhileEncoding ==
    (mode = "snapshot" /\ wOp = "encode" /\ wpc = "inner") => wValue' = wValue

\* C16 as stated: the encode of an unheld lock succeeds and emits the inner
\* adapter's encoding of the value stored at the moment of the call; the
\* decode builds a fresh, unheld wrapper around the decoded value that can be
\* locked or read at once.
C16_UnheldLockEncodes ==
    /\ [](DecodedIsFresh)
    /\ [][/\ (LockAttemptStep /\ Free) => wpc' = "inner"
          /\ StableWhileEncoding
          /\ InnerStep =>
                 wresult' = IF innerFails THEN ErrResult(InnerFailure)
                            ELSE OkResult(InnerPayload(wValue))]_vars

\* C16 as amended: the encode of a lock that is unheld, not poisoned and has
\* no thread queued for it takes the lock and returns what the inner adapter
\* returns for the value stored at the moment of the call (its encoding, or
\* its error); an unheld but poisoned lock makes the encode fail with a
\* custom error without calling the inner adapter.  The decode, when the
\* inner adapter succeeds, builds a fresh wrapper (Mutex, RwLock, RefCell,
\* Cell) around the decoded value with no guard alive and no poison, which
\* can be locked or read at once; when the inner adapter fails, its error is
\* returned and no wrapper is built.
C16_UnheldUnpoisonedLockEncodes ==
    /\ [](DecodedIsFresh)
    /\ [][/\ (LockAttemptStep /\ Free /\ ~poisoned /\ holder # "waiting") =>
                 wpc' = "inner"
          /\ (LockAttemptStep /\ Free /\ poisoned /\ holder # "waiting") =>
                 /\ wpc' = "done"
                 /\ wresult' = ErrResult([e |-> "custom", msg |-> "poisoned"])
                 /\ innerCalls' = 0
          /\ StableWhileEncoding
          /\ InnerStep =>
                 wresult' = IF innerFails THEN ErrResult(InnerFailure)
                            ELSE OkResult(InnerPayload(wValue))]_vars

C16_Witness ==
    /\ mode = "snapshot"
    /\ wOp = "decode"
    /\ wKind = "Mutex"
    /\ wpc = "done"
    /\ decodedInner = 2
    /\ wresult.kind = "ok"
    /\ wExists
    /\ wValue = 2
    /\ selfGuard = "write"
    /\ snapshot = 2

\* C17: the encode of a mutably borrowed RefCell returns a custom error, not a
\* panic; it leaves the contents and the outstanding mutable borrow as they
\* were, so that the borrower can still store through it afterwards; the
\* inner adapter is not called.
C17_BorrowedRefCellFailsCleanly ==
    /\ []((mode = "snapshot" /\ wOp = "encode" /\ wKind = "RefCell") =>
              /\ wpc \in {"start", "inner", "done"}
              /\ (wpc = "done" /\ CustomError(wresult)) => innerCalls = 0
              /\ (wpc = "done" /\ selfGuard = "write") => ENABLED SelfStore)
    /\ [][(AttemptStep /\ wKind = "RefCell" /\ selfGuard = "write") =>
              /\ wpc' = "done"
              /\ wresult' = ErrResult([e |-> "custom", msg |-> "borrow_error"])
              /\ innerCalls' = 0
              /\ wValue' = wValue
              /\ selfGuard' = "write"
              /\ ~encGuard']_vars

C17_Witness ==
    /\ mode = "snapshot"
    /\ wOp = "encode"
    /\ wKind = "RefCell"
    /\ selfGuard = "write"
    /\ wpc = "done"
    /\ wresult = ErrResult([e |-> "custom", msg |-> "borrow_error"])
    /\ innerCalls = 0
    /\ attempts = 1

(***************************************************************************)
(* Properties of Fold.                                                     *)
(***************************************************************************)
\* ((a + x_1) + x_2) + ... + x_n
RECURSIVE LeftFold(_, _, _)
LeftFold(kind, a, xs) ==
    IF xs = <<>> THEN a
    ELSE LeftFold(kind,
                  IF kind = "i8" THEN WrapI8(a + Head(xs))
                  ELSE [l |-> a, r |-> [leaf |-> Head(xs)]],
                  Tail(xs))

FoldReturned == mode = "fold" /\ fpc = "done" /\ AllOk(fSource)

\* C18: the fold of a sequence whose elements all decode is
\* ((default + x_1) + x_2) + ... + x_n, combined left to right in source order
\* from the accumulator's default; the empty sequence gives the default and
\* [1, 2, 3] with integer addition gives 6.
C18_FoldIsLeftFoldFromDefault ==
    /\ FoldReturned =>
           \/ fresult = OkResult(LeftFold(fKind, FoldDefault(fKind),
                                          [i \in 1..Len(fSource) |-> fSource[i].val]))
                /\ fRequests = Len(fSource) + 1
           \/ fresult.kind = "panic" /\ fBuild = "debug" /\ fKind = "i8"
    /\ (FoldReturned /\ fSource = <<>>) =>
           fresult = OkResult(IF fKind = "i8" THEN 0 ELSE [zero |-> TRUE])
    /\ (FoldReturned /\ fKind = "i8"
          /\ fSource = <<OkItem(1), OkItem(2), OkItem(3)>>) =>
           fresult = OkResult(6)

C18_Witness ==
    /\ FoldReturned
    /\ fKind = "term"
    /\ fSource = <<OkItem(1), OkItem(2), OkItem(3)>>
    /\ fresult = OkResult([l |-> [l |-> [l |-> [zero |-> TRUE], r |-> [leaf |-> 1]],
                                   r |-> [leaf |-> 2]],
                           r |-> [leaf |-> 3]])

(***************************************************************************)
(* Properties of HumanOr.                                                  *)
(***************************************************************************)
\* The calls that have returned are the log entries: each call invokes one
\* inner adapter, once.
RoutedByOwnFlag(e) ==
    /\ e.adapter = (IF e.human THEN "F" ELSE "G")
    /\ e.result = (IF e.op = "serialize"
                   THEN OkResult(IF e.human THEN DmStr(Display(e.arg)) ELSE DmI8(e.arg))
                   ELSE IF e.human
                   THEN (IF e.arg.t = "str" THEN StrVisitStr("i8", e.arg.s)
                         ELSE ErrResult(InvalidType(e.arg.t, "a string")))
                   ELSE (IF e.arg.t = "i8" THEN OkResult(e.arg.n)
                         ELSE ErrResult(InvalidType(e.arg.t, "i8"))))

\* C19: every HumanOr call, encode or decode, goes to F when the format of
\* that call is human-readable and to G when it is not, whatever the earlier
\* calls were given; the other adapter is not invoked for that call.
C19_HumanOrRoutesEachCallByItsFlag ==
    /\ mode = "human" => \A i \in 1..Len(hLog) : RoutedByOwnFlag(hLog[i])
    /\ (mode = "human" /\ hpc \in {"F", "G"}) => hpc = (IF hHuman THEN "F" ELSE "G")

C19_Witness ==
    /\ mode = "human"
    /\ hpc = "idle"
    /\ Len(hLog) = 2
    /\ hLog[1].human /\ hLog[1].adapter = "F" /\ hLog[1].op = "serialize"
    /\ ~hLog[2].human /\ hLog[2].adapter = "G" /\ hLog[2].op = "deserialize"
    /\ hLog[2].result = OkResult(33)

(***************************************************************************)
(* Properties of WithEncoding.                                             *)
(***************************************************************************)
WithEncodingDone(op) == mode = "binder" /\ wepc = "done" /\ weOp = op

\* What F alone returns for the scenario's input.
AdapterEncodes ==
    IF weSinkFails THEN ErrResult([e |-> "sink", call |-> "value"])
    ELSE OkResult(IF weF.a = "Id" THEN DmI8(weValue) ELSE DmStr(Display(weValue)))

AdapterDecodes ==
    IF weF.a = "Id"
    THEN (IF weInput.t = "i8" THEN OkResult(weInput.n)
          ELSE ErrResult(InvalidType(weInput.t, "i8")))
    ELSE (IF weInput.t = "str" THEN StrVisitStr(weF.ty, weInput.s)
          ELSE ErrResult(InvalidType(weInput.t, "a string")))

\* C20: WithEncoding adds nothing of its own: from(v).into_inner() is v, the
\* encoding of a binder is what F::serialize_with returns for the held value
\* (output or error), and decoding a binder returns what F::deserialize_with
\* returns, wrapped on success and the same error on failure.
C20_WithEncodingPassesThrough ==
    /\ WithEncodingDone("into_inner") => weresult = OkResult(weValue)
    /\ WithEncodingDone("serialize") =>
           weresult = AdapterEncodes /\ binder[1].value = weValue
    /\ WithEncodingDone("deserialize") =>
           IF AdapterDecodes.kind = "ok"
           THEN /\ weresult.kind = "ok"
                /\ IntoInner(weresult.val) = AdapterDecodes.val
           ELSE weresult = AdapterDecodes

C20_Witness ==
    /\ WithEncodingDone("deserialize")
    /\ weF = StrNode("i8")
    /\ weInput = DmStr(<<45, 55>>)
    /\ weresult = OkResult([encoding |-> StrNode("i8"), value |-> -7])

(***************************************************************************)
(* Properties of TryFrom and TryInto.                                      *)
(***************************************************************************)
ConvertDone(op) == mode = "convert" /\ cvpc = "done" /\ cvOp = op

IsSurrogateOrBeyond(n) == (n >= 55296 /\ n <= 57343) \/ n > 1114111

\* C21: TryFrom decodes the intermediate through F, then converts.  An inner
\* decode error is returned unchanged with no conversion attempted; a failed
\* conversion gives a custom error carrying the conversion's message; neither
\* failure returns a value.
C21_TryFromDecodesThenConverts ==
    ConvertDone("try_from") =>
        /\ cvInnerCalls = 1
        /\ IF cvInput.t # "u32"
           THEN /\ cvresult = ErrResult(InvalidType(cvInput.t, "u32"))
                /\ cvConversions = 0
           ELSE /\ cvConversions = 1
                /\ IF IsSurrogateOrBeyond(cvInput.n)
                   THEN cvresult =
                            ErrResult([e |-> "custom",
                                       msg |-> "converted integer out of range for char"])
                   ELSE cvresult = OkResult([char |-> cvInput.n])

C21_Witness ==
    /\ ConvertDone("try_from")
    /\ cvInput = DmU32(55296)
    /\ cvresult.kind = "err"
    /\ cvresult.err.e = "custom"

\* C22: TryInto converts a clone of the value before touching the sink.  When
\* the conversion fails the encode returns a custom error carrying the
\* conversion's message, F is never invoked and nothing is written.
C22_TryIntoConvertsBeforeEncoding ==
    /\ (mode = "convert" /\ cvOp = "try_into" /\ cvConversions = 0) =>
           cvInnerCalls = 0 /\ cvSink = <<>>
    /\ ConvertDone("try_into") =>
           /\ cvConversions = 1
           /\ IF cvValue > 255
              THEN /\ cvresult =
                          ErrResult([e |-> "custom",
                                     msg |-> "out of range integral type conversion attempted"])
                   /\ cvInnerCalls = 0
                   /\ cvSink = <<>>
              ELSE /\ cvInnerCalls = 1
                   /\ IF cvSinkFails
                      THEN cvresult.kind = "err" /\ cvSink = <<>>
                      ELSE cvresult = OkResult(DmU8(cvValue)) /\ cvSink = <<DmU8(cvValue)>>

C22_Witness ==
    /\ ConvertDone("try_into")
    /\ cvValue = 256
    /\ cvresult.kind = "err"
    /\ cvInnerCalls = 0
    /\ cvSink = <<>>

(***************************************************************************)
(* Properties of the containers' error propagation.                        *)
(***************************************************************************)
\* The last pull from src answered an error, and no pull before it did.
PulledError(src, n) ==
    /\ n \in 1..Len(src)
    /\ src[n].kind = "err"

\* The decode's result is the error of the n-th pull as the decoder raised it,
\* and nothing was pulled past an error.
ReturnsPulledError(src, n, res) ==
    /\ res = ErrResult([e |-> "element", msg |-> src[n].err])
    /\ \A i \in 1..(n - 1) : src[i].kind = "ok"

\* C23: an error the decoder raises while Array, Bytes (from a sequence),
\* Fold, Seq or Map pulls the next element or entry is the result of the
\* whole decode, unchanged: not wrapped, not replaced, not swallowed into a
\* partial value, and the pull is not retried.
C23_PulledErrorIsReturnedUnchanged ==
    /\ (mode = "decode" /\ PulledError(source, pos)) =>
           ReturnsPulledError(source, pos, result) /\ requests = pos
    /\ (mode = "bytes" /\ bSource.shape = "seq" /\ PulledError(bSource.data, brequests)) =>
           ReturnsPulledError(bSource.data, brequests, bresult) /\ bconversions = 0
    /\ (mode = "fold" /\ PulledError(fSource, fRequests)) =>
           ReturnsPulledError(fSource, fRequests, fresult)
    /\ (mode = "collect" /\ PulledError(cSource, cRequests)) =>
           ReturnsPulledError(cSource, cRequests, cresult)

C23_Witness ==
    /\ mode = "collect"
    /\ cKind = "Map"
    /\ cSource = <<OkItem(<<1, 2>>), ErrItem("syntax"), OkItem(<<2, 1>>)>>
    /\ cRequests = 2
    /\ cpc = "done"
    /\ cresult = ErrResult([e |-> "element", msg |-> "syntax"])

(***************************************************************************)
(* Properties of repeated calls.                                           *)
(***************************************************************************)
\* PartialEq of the values: a map's iteration order is no part of it.
ValueEq(a, b) ==
    /\ a.kind = b.kind
    /\ IF a.kind = "i8" THEN a.n = b.n ELSE a.entries = b.entries

ResultEq(r, q) ==
    /\ r.kind = q.kind
    /\ IF r.kind = "ok" THEN ValueEq(r.val, q.val) ELSE r = q

SameCall(c, d) ==
    /\ c.op = d.op
    /\ c.adapter = d.adapter
    /\ c.target = d.target
    /\ c.refused = d.refused

SameOutcome(c, d) ==
    IF c.op = "serialize" THEN c.emitted = d.emitted /\ c.result = d.result
    ELSE ResultEq(c.result, d.result)

Populated == {k \in 1..Len(items) : items[k] # Uninit}

\* fill is entered from visit_seq's MaybeUninitArray::new() only, on a buffer
\* with count = 0 and no slot written; once left it is not entered again.
FillEntryStep ==
    (mode = "decode" /\ pc # "fill" /\ pc' = "fill") =>
        /\ pc = "visit_seq"
        /\ count' = 0
        /\ slot' = 0
        /\ \A k \in 1..Len(items') : items'[k] = Uninit

\* count is the number of slots the buffer holds written, all of them written
\* by this fill, one per element taken from the source.
CountIsWrites ==
    mode = "decode" =>
        /\ count = Cardinality(Populated)
        /\ Populated = 1..count
        /\ (pc \in {"fill", "check"} \/ result.kind = "err") =>
               count = Len(written) /\ \A k \in 1..count : items[k] = written[k]
        /\ \A k \in 1..Len(written) : written[k] = k

\* C25: fill is entered at most once per buffer, and only on the buffer
\* visit_seq has just created with count = 0; count is at every point the
\* number of slots that single fill has written into the buffer, and no
\* populated prefix is ever written over.
C25_FillEnteredOnceOnFreshBuffer == [](CountIsWrites) /\ [][FillEntryStep]_vars

C25_Witness ==
    /\ mode = "decode"
    /\ pc = "drop"
    /\ result.kind = "err"
    /\ N = 3
    /\ count = 2
    /\ Populated = {1, 2}

(***************************************************************************)
(* Properties of the number of elements Array<F> requests.                 *)
(***************************************************************************)
\* C26: Array<F> requests at most N elements.  From a source of N or more
\* elements it returns the first N in order after N requests, without an
\* (N+1)-th request and without a length error for the surplus; from a source
\* of m < N elements it makes exactly m + 1 requests.
C26_ArrayRequestsAtMostN ==
    mode = "decode" =>
        /\ requests <= N
        /\ (Returned /\ AllOk(source) /\ Len(source) >= N) =>
               /\ requests = N
               /\ result.kind = "ok"
               /\ [k \in 1..N |-> source[result.val[k]].val] = [k \in 1..N |-> source[k].val]
               /\ \A k \in 1..N : result.val[k] = k
        /\ (Returned /\ AllOk(source) /\ Len(source) < N) =>
               /\ requests = Len(source) + 1
               /\ result.kind = "err"

C26_Witness ==
    /\ mode = "decode"
    /\ pc = "done"
    /\ N = 2
    /\ Len(source) = 4
    /\ AllOk(source)
    /\ requests = 2
    /\ result.kind = "ok"

(***************************************************************************)
(* Properties of the snapshot adapters' guard, of shared access and of     *)
(* poisoned locks.                                                         *)
(***************************************************************************)
\* A step of the encode itself, as opposed to one of another holder.
EncodeStep ==
    /\ mode = "snapshot"
    /\ wOp = "encode"
    /\ <<wpc, attempts, innerCalls, encGuard>>' # <<wpc, attempts, innerCalls, encGuard>>
    /\ wpc # "done"

\* The adapter's guard is alive only while the inner adapter encodes.
GuardOnlyWhileEncoding ==
    (mode = "snapshot" /\ wOp = "encode") =>
        /\ encGuard => wpc = "inner" /\ wKind # "Cell"
        /\ wpc = "done" => ~encGuard /\ wresult.kind \in {"ok", "err"}

\* C27: Mutex, RwLock and RefCell encodes hold the guard or borrow only while
\* the inner adapter encodes.  When the call returns, with success, with an
\* acquisition failure or with an inner failure, the adapter holds nothing,
\* and no step of the encode changes the stored value, the poison flag or
\* any other holder's guard.
C27_GuardReleasedOnReturn ==
    /\ [](GuardOnlyWhileEncoding)
    /\ [][EncodeStep => UNCHANGED <<wValue, poisoned, selfGuard, holder, wExists>>]_vars

C27_Witness ==
    /\ mode = "snapshot"
    /\ wOp = "encode"
    /\ wKind = "Mutex"
    /\ wpc = "done"
    /\ innerFails
    /\ innerCalls = 1
    /\ wresult = ErrResult(InnerFailure)
    /\ ~encGuard
    /\ Free

WouldBlock(res) == res = ErrResult([e |-> "custom", msg |-> "would_block"])

RwLockAttemptStep == LockAttemptStep /\ wKind = "RwLock"

\* C28 as stated: the RwLock encode takes shared access without blocking; it
\* fails for contention only when a writer holds the lock, and succeeds,
\* emitting the current value, while other readers hold shared access.
C28_RwLockFailsOnlyBesideWriter ==
    [][/\ RwLockAttemptStep =>
              /\ WouldBlock(wresult') => ExclusivelyHeld
              /\ (~ExclusivelyHeld /\ ~poisoned) => wpc' = "inner" /\ encGuard'
       /\ (InnerStep /\ wKind = "RwLock" /\ ~innerFails) =>
              wresult' = OkResult(InnerPayload(wValue))]_vars

\* C28 as amended: the RwLock encode takes shared access without blocking; it
\* fails for contention when a writer holds the lock or, where the platform's
\* lock refuses readers beside a queued writer, when a writer waits for it;
\* beside readers only, on an unpoisoned lock, it succeeds and emits the
\* current value.
C28_RwLockFailsBesideWriterOrQueuedWriter ==
    [][/\ RwLockAttemptStep =>
              /\ wpc' \in {"inner", "done"}
              /\ WouldBlock(wresult') => (ExclusivelyHeld \/ holder = "waiting")
              /\ ExclusivelyHeld => WouldBlock(wresult') /\ wpc' = "done"
              /\ (~ExclusivelyHeld /\ ~poisoned /\ holder # "waiting") =>
                     wpc' = "inner" /\ encGuard'
       /\ (InnerStep /\ wKind = "RwLock" /\ ~innerFails) =>
              wresult' = OkResult(InnerPayload(wValue))]_vars

C28_Witness ==
    /\ mode = "snapshot"
    /\ wOp = "encode"
    /\ wKind = "RwLock"
    /\ holder = "read"
    /\ selfGuard = "read"
    /\ wpc = "done"
    /\ wresult = OkResult(InnerPayload(wValue))

\* C29: the encode of a poisoned Mutex or RwLock that no one holds fails with
\* a custom error and the inner adapter is not invoked: every failure of the
\* non-blocking acquisition, Poisoned as well as WouldBlock, becomes an
\* encode error.
C29_PoisonedLockFails ==
    [][LockAttemptStep =>
           /\ poisoned =>
                  /\ wpc' = "done"
                  /\ CustomError(wresult')
                  /\ innerCalls' = 0
                  /\ ~encGuard'
           /\ (poisoned /\ Free /\ holder # "waiting") =>
                  wresult' = ErrResult([e |-> "custom", msg |-> "poisoned"])
           /\ wpc' = "done" =>
                  /\ wresult'.kind = "err"
                  /\ wresult'.err.e = "custom"
                  /\ wresult'.err.msg \in {"poisoned", "would_block"}
                  /\ innerCalls' = 0]_vars

C29_Witness ==
    /\ mode = "snapshot"
    /\ wOp = "encode"
    /\ wKind = "RwLock"
    /\ poisoned
    /\ Free
    /\ wpc = "done"
    /\ wresult = ErrResult([e |-> "custom", msg |-> "poisoned"])
    /\ innerCalls = 0
    /\ attempts = 1

(***************************************************************************)
(* Properties of Fold's requests.                                          *)
(***************************************************************************)
\* C30: Fold stops at the first element that fails to decode: it returns
\* that error and no partial sum, and requests nothing after it; a sequence
\* of n elements that all decode is requested exactly n + 1 times.
C30_FoldStopsAtFirstError ==
    mode = "fold" =>
        /\ fRequests <= Len(fSource) + 1
        /\ \A i \in 1..(fRequests - 1) : i <= Len(fSource) => fSource[i].kind = "ok"
        /\ (fpc = "done" /\ fresult.kind # "panic" /\ ~AllOk(fSource)) =>
               /\ fRequests = FirstError(fSource)
               /\ fresult = ErrResult([e |-> "element",
                                       msg |-> fSource[FirstError(fSource)].err])
        /\ (fpc = "done" /\ fresult.kind # "panic" /\ AllOk(fSource)) =>
               /\ fRequests = Len(fSource) + 1
               /\ fresult.kind = "ok"
        /\ (fpc = "done" /\ fresult.kind = "panic") =>
               fBuild = "debug" /\ fSource[fRequests].kind = "ok"

C30_Witness ==
    /\ mode = "fold"
    /\ fpc = "done"
    /\ fKind = "i8"
    /\ fSource = <<OkItem(1), OkItem(2), ErrItem("custom"), OkItem(3)>>
    /\ accum = 3
    /\ fRequests = 3
    /\ fresult = ErrResult([e |-> "element", msg |-> "custom"])

(***************************************************************************)
(* Initial states and the specification.                                   *)
(***************************************************************************)
DecodeIdle ==
    /\ N = 0
    /\ source = <<>>
    /\ pos = 0
    /\ requests = 0
    /\ items = <<>>
    /\ count = 0
    /\ slot = 0
    /\ pc = "idle"
    /\ result = NoResult
    /\ written = <<>>
    /\ bufferDrops = <<>>
    /\ ownerDrops = <<>>
    /\ uninitTouched = FALSE

EncodeIdle ==
    /\ value = <<>>
    /\ fFails = {}
    /\ sinkFails = "none"
    /\ out = <<>>
    /\ idx = 0
    /\ epc = "idle"
    /\ eresult = NoResult

BytesIdle ==
    /\ bTarget = "none"
    /\ bN = 0
    /\ bSource = Presented("none", <<>>)
    /\ bpc = "idle"
    /\ bresult = NoResult
    /\ brequests = 0
    /\ bHint = <<>>
    /\ bConvFails = FALSE
    /\ bstorage = "none"
    /\ bcapacity = "none"
    /\ bbuf = <<>>
    /\ bconversions = 0

\* The target types of the byte codec's decode.
ByteTargets == {"array", "slice", "ref_array", "cow", "vec", "byte_vec"}

\* The sources a decoder can hand to a byte visitor.
ByteSources ==
    {Presented(sh, d) : sh \in BlobShapes, d \in SeqsUpTo(U8Sample, MaxLen)}
      \cup {Presented(sh, d) : sh \in StrShapes, d \in SeqsUpTo(CharSample, MaxLen)}
      \cup {Presented("seq", d) :
                d \in SeqsUpTo({OkItem(b) : b \in U8Sample}
                                 \cup {ErrItem(e) : e \in ElemErrors}, MaxLen)}

CallsIdle == calls = <<>>

CollectIdle ==
    /\ cKind = "none"
    /\ cSource = <<>>
    /\ cRequests = 0
    /\ collected = <<>>
    /\ cpc = "off"
    /\ cresult = NoResult

ConvertIdle ==
    /\ cvOp = "none"
    /\ cvInput = DmNone
    /\ cvValue = 0
    /\ cvSinkFails = FALSE
    /\ cvInnerCalls = 0
    /\ cvConversions = 0
    /\ cvSink = <<>>
    /\ cvpc = "off"
    /\ cvresult = NoResult

WithEncodingIdle ==
    /\ weF = [a |-> "none"]
    /\ weOp = "none"
    /\ weValue = 0
    /\ weInput = DmNone
    /\ weSinkFails = FALSE
    /\ binder = <<>>
    /\ wepc = "off"
    /\ weresult = NoResult

HumanIdle ==
    /\ hOp = "none"
    /\ hHuman = FALSE
    /\ hArg = 0
    /\ hpc = "off"
    /\ hLog = <<>>

FoldIdle ==
    /\ fKind = "none"
    /\ fBuild = "none"
    /\ fSource = <<>>
    /\ fRequests = 0
    /\ accum = 0
    /\ fpc = "idle"
    /\ fresult = NoResult

SnapshotIdle ==
    /\ wKind = "none"
    /\ wOp = "none"
    /\ wExists = FALSE
    /\ wValue = 0
    /\ selfGuard = "none"
    /\ holder = "idle"
    /\ poisoned = FALSE
    /\ innerFails = FALSE
    /\ decodedInner = 0
    /\ encGuard = FALSE
    /\ wpc = "idle"
    /\ attempts = 0
    /\ innerCalls = 0
    /\ snapshot = 0
    /\ wresult = NoResult

RoundTripIdle ==
    /\ rtNode = [a |-> "none"]
    /\ rtValue = 0
    /\ rtFormat = "none"
    /\ wire = NoWire
    /\ decoded = NoResult
    /\ rpc = "idle"

\* The sequences of exactly n elements of S.
SeqsOfLen(S, n) == {s \in SeqsUpTo(S, n) : Len(s) = n}

\* The integers the round trips are run on, by type.
IntSample(ty) == IF ty = "i8" THEN {-128, -7, 0, 33, 127} ELSE {0, 7, 255}

RangeKinds ==
    {"Range", "RangeFrom", "RangeTo", "RangeToInclusive", "RangeInclusive", "Bound"}

\* The values of a std range type over the bounds S.  A RangeInclusive is
\* exhausted only once iteration has brought start up to end.
RangeValues(kind, S) ==
    CASE kind = "Range" -> {[start |-> x, end |-> y] : x \in S, y \in S}
      [] kind = "RangeFrom" -> {[start |-> x] : x \in S}
      [] kind \in {"RangeTo", "RangeToInclusive"} -> {[end |-> y] : y \in S}
      [] kind = "RangeInclusive" ->
           {[start |-> x, end |-> y, exhausted |-> FALSE] : x \in S, y \in S}
             \cup {[start |-> x, end |-> x, exhausted |-> TRUE] : x \in S}
      [] kind = "Bound" ->
           {[b |-> "Unbounded"]}
             \cup {[b |-> k, x |-> x] : k \in {"Included", "Excluded"}, x \in S}

\* The values of the type an adapter is applied to.
RECURSIVE ValuesOf(_)
ValuesOf(node) ==
    CASE node.a = "Str" -> IntSample(node.ty)
      [] node.a = "Bytes" ->
           IF node.ty \in {"array", "ref_array"}
           THEN SeqsOfLen(U8Sample, node.n)
           ELSE SeqsUpTo(U8Sample, MaxRtLen)
      [] node.a = "Array" -> SeqsOfLen(ValuesOf(node.f), node.n)
      [] node.a = "Seq" -> SeqsUpTo(ValuesOf(node.f), MaxRtLen)
      [] node.a = "Map" ->
           UNION {[K -> ValuesOf(node.g)] :
                      K \in {S \in SUBSET ValuesOf(node.f) :
                                 Cardinality(S) <= MaxRtLen}}
      [] node.a = "Option" ->
           {[some |-> FALSE]}
             \cup {[some |-> TRUE, x |-> x] : x \in ValuesOf(node.f)}
      [] node.a = "Range" -> RangeValues(node.kind, ValuesOf(node.f))
      [] node.a = "Tuple" -> ValuesOf(node.f) \X ValuesOf(node.g)
      [] node.a = "Wrapping" -> {[wrapped |-> x] : x \in ValuesOf(node.f)}

\* The adapters the round trips are run through: each adapter on its own and
\* in compositions with the others.
ByteNodes ==
    {BytesNode("vec", 0), BytesNode("slice", 0)}
      \cup {BytesNode(ty, n) : ty \in {"array", "ref_array"}, n \in 0..MaxRtLen}

RtNodes ==
    {StrNode("i8"), StrNode("u8")}
      \cup ByteNodes
      \cup {ArrayNode(n, f) :
                n \in 0..MaxRtLen,
                f \in {StrNode("i8"), BytesNode("ref_array", 1),
                       OptionNode(StrNode("u8"))}}
      \cup {SeqNode(f) :
                f \in {StrNode("i8"), BytesNode("array", 1), BytesNode("ref_array", 1),
                       OptionNode(StrNode("u8"))}}
      \cup {MapNode(StrNode("u8"), g) :
                g \in {StrNode("i8"), BytesNode("ref_array", 1),
                       OptionNode(StrNode("u8"))}}
      \cup {OptionNode(f) :
                f \in {StrNode("i8"), BytesNode("vec", 0), BytesNode("slice", 0),
                       OptionNode(StrNode("u8")), SeqNode(StrNode("u8")),
                       ArrayNode(2, StrNode("u8"))}}
      \cup {RangeNode(kind, f) :
                kind \in RangeKinds, f \in {StrNode("i8"), BytesNode("slice", 0)}}
      \cup {TupleNode(f, g) :
                f \in {StrNode("i8"), BytesNode("slice", 0)},
                g \in {StrNode("u8"), BytesNode("vec", 0),
                       OptionNode(StrNode("i8"))}}
      \cup {WrappingNode(StrNode(ty)) : ty \in {"i8", "u8"}}
      \cup {SeqNode(WrappingNode(StrNode("i8"))),
            OptionNode(RangeNode("RangeInclusive", StrNode("u8")))}

InitDecode ==
    /\ FoldIdle
    /\ HumanIdle
    /\ WithEncodingIdle
    /\ ConvertIdle
    /\ CollectIdle
    /\ CallsIdle
    /\ RoundTripIdle
    /\ SnapshotIdle
    /\ mode = "decode"
    /\ EncodeIdle
    /\ BytesIdle
    /\ N \in 0..MaxN
    /\ source \in SeqsUpTo(SourceItems, MaxLen)
    /\ pos = 0
    /\ requests = 0
    /\ items = <<>>
    /\ count = 0
    /\ slot = 0
    /\ pc = "visit_seq"
    /\ result = NoResult
    /\ written = <<>>
    /\ bufferDrops = [id \in 1..Len(source) |-> 0]
    /\ ownerDrops = [id \in 1..Len(source) |-> 0]
    /\ uninitTouched = FALSE

InitEncode ==
    /\ FoldIdle
    /\ HumanIdle
    /\ WithEncodingIdle
    /\ ConvertIdle
    /\ CollectIdle
    /\ CallsIdle
    /\ RoundTripIdle
    /\ SnapshotIdle
    /\ mode = "encode"
    /\ DecodeIdle
    /\ BytesIdle
    /\ value \in SeqsUpTo(Vals, MaxN)
    /\ fFails \in SUBSET (1..Len(value))
    /\ sinkFails \in {"none", "tuple", "end"}
    /\ out = <<>>
    /\ idx = 0
    /\ epc = "start"
    /\ eresult = NoResult

InitBytes ==
    /\ FoldIdle
    /\ HumanIdle
    /\ WithEncodingIdle
    /\ ConvertIdle
    /\ CollectIdle
    /\ CallsIdle
    /\ RoundTripIdle
    /\ SnapshotIdle
    /\ mode = "bytes"
    /\ DecodeIdle
    /\ EncodeIdle
    /\ bTarget \in ByteTargets
    /\ bN \in (IF bTarget \in {"array", "ref_array"} THEN 0..MaxN ELSE {0})
    /\ bSource \in ByteSources
    /\ bHint \in (IF bTarget \in {"vec", "byte_vec"} /\ bSource.shape = "seq"
                  THEN SizeHints ELSE {<<>>})
    /\ bConvFails \in (IF bTarget = "byte_vec" THEN BOOLEAN ELSE {FALSE})
    /\ bpc = "start"
    /\ bresult = NoResult
    /\ brequests = 0
    /\ bstorage = "none"
    /\ bcapacity = "none"
    /\ bbuf = <<>>
    /\ bconversions = 0

InitRoundTrip ==
    /\ mode = "roundtrip"
    /\ FoldIdle
    /\ HumanIdle
    /\ WithEncodingIdle
    /\ ConvertIdle
    /\ CollectIdle
    /\ CallsIdle
    /\ SnapshotIdle
    /\ DecodeIdle
    /\ EncodeIdle
    /\ BytesIdle
    /\ rtNode \in RtNodes
    /\ rtValue \in ValuesOf(rtNode)
    /\ rtFormat \in Formats
    /\ wire = NoWire
    /\ decoded = NoResult
    /\ rpc = "serialize"

\* An encode is given a wrapper in any state its type allows: a Cell has no
\* guards, a RefCell only those of the calling thread (it is not Sync), a Mutex
\* no shared guards.  A decode starts without a wrapper.
InitSnapshot ==
    /\ mode = "snapshot"
    /\ FoldIdle
    /\ HumanIdle
    /\ WithEncodingIdle
    /\ ConvertIdle
    /\ CollectIdle
    /\ CallsIdle
    /\ DecodeIdle
    /\ EncodeIdle
    /\ BytesIdle
    /\ RoundTripIdle
    /\ wKind \in {"Mutex", "RwLock", "RefCell", "Cell"}
    /\ wOp \in {"encode", "decode"}
    /\ wExists = (wOp = "encode")
    /\ wValue \in (IF wOp = "encode" THEN Vals ELSE {0})
    /\ selfGuard \in (IF wOp = "decode" \/ wKind = "Cell" THEN {"none"}
                      ELSE IF wKind = "Mutex" THEN {"none", "write"}
                      ELSE {"none", "write", "read"})
    /\ holder \in (IF wOp = "encode" /\ wKind \in Locks /\ selfGuard = "none"
                   THEN (IF wKind = "Mutex" THEN {"idle", "write"}
                         ELSE {"idle", "write", "read"})
                   ELSE IF wOp = "encode" /\ wKind = "RwLock" /\ selfGuard = "read"
                   THEN {"idle", "read", "waiting"}
                   ELSE IF wOp = "encode" /\ wKind \in Locks
                   THEN {"idle", "waiting"}
                   ELSE {"idle"})
    /\ poisoned \in (IF wOp = "encode" /\ wKind \in Locks THEN BOOLEAN ELSE {FALSE})
    /\ innerFails \in BOOLEAN
    /\ decodedInner \in (IF wOp = "decode" THEN Vals ELSE {0})
    /\ encGuard = FALSE
    /\ wpc = "start"
    /\ attempts = 0
    /\ innerCalls = 0
    /\ snapshot = 0
    /\ wresult = NoResult

\* The elements a folded sequence is made of, as F decodes them.
FoldItems == {OkItem(x) : x \in {1, 2, 3, 100}} \cup {ErrItem("custom")}

InitFold ==
    /\ mode = "fold"
    /\ DecodeIdle
    /\ EncodeIdle
    /\ BytesIdle
    /\ RoundTripIdle
    /\ SnapshotIdle
    /\ HumanIdle
    /\ WithEncodingIdle
    /\ ConvertIdle
    /\ CollectIdle
    /\ CallsIdle
    /\ fKind \in {"i8", "term"}
    /\ fBuild \in (IF fKind = "i8" THEN {"debug", "release"} ELSE {"release"})
    /\ fSource \in SeqsUpTo(FoldItems, MaxLen)
    /\ fRequests = 0
    /\ accum = 0
    /\ fpc = "visit_seq"
    /\ fresult = NoResult

InitHuman ==
    /\ mode = "human"
    /\ DecodeIdle
    /\ EncodeIdle
    /\ BytesIdle
    /\ RoundTripIdle
    /\ SnapshotIdle
    /\ FoldIdle
    /\ WithEncodingIdle
    /\ ConvertIdle
    /\ CollectIdle
    /\ CallsIdle
    /\ hOp = "none"
    /\ hHuman = FALSE
    /\ hArg = 0
    /\ hpc = "idle"
    /\ hLog = <<>>

\* The adapters a binder is typed with, and the values of their type.
WithAdapters == {IdNode, StrNode("i8"), StrNode("u8")}

WithValues(f) == IntSample(IF f.a = "Id" THEN "i8" ELSE f.ty)

WithInputs == {DmStr(Display(v)) : v \in {-7, 33, 255}} \cup {DmI8(33), DmNone}

InitWithEncoding ==
    /\ mode = "binder"
    /\ DecodeIdle
    /\ EncodeIdle
    /\ BytesIdle
    /\ RoundTripIdle
    /\ SnapshotIdle
    /\ FoldIdle
    /\ HumanIdle
    /\ ConvertIdle
    /\ CollectIdle
    /\ CallsIdle
    /\ weF \in WithAdapters
    /\ weOp \in {"into_inner", "serialize", "deserialize"}
    /\ weValue \in (IF weOp = "deserialize" THEN {0} ELSE WithValues(weF))
    /\ weInput \in (IF weOp = "deserialize" THEN WithInputs ELSE {DmNone})
    /\ weSinkFails \in (IF weOp = "serialize" THEN BOOLEAN ELSE {FALSE})
    /\ binder = <<>>
    /\ wepc = (IF weOp = "deserialize" THEN "deserialize" ELSE "from")
    /\ weresult = NoResult

\* u32 values around the limits of u8 and of char.
U32Sample == {0, 97, 255, 256, 55295, 55296, 57343, 57344, 1114111, 1114112}

InitConvert ==
    /\ mode = "convert"
    /\ DecodeIdle
    /\ EncodeIdle
    /\ BytesIdle
    /\ RoundTripIdle
    /\ SnapshotIdle
    /\ FoldIdle
    /\ HumanIdle
    /\ WithEncodingIdle
    /\ CollectIdle
    /\ CallsIdle
    /\ cvOp \in {"try_from", "try_into"}
    /\ cvInput \in (IF cvOp = "try_from"
                    THEN {DmU32(n) : n \in U32Sample} \cup {DmStr(<<97>>), DmNone}
                    ELSE {DmNone})
    /\ cvValue \in (IF cvOp = "try_into" THEN U32Sample ELSE {0})
    /\ cvSinkFails \in (IF cvOp = "try_into" THEN BOOLEAN ELSE {FALSE})
    /\ cvInnerCalls = 0
    /\ cvConversions = 0
    /\ cvSink = <<>>
    /\ cvpc = (IF cvOp = "try_from" THEN "try_from" ELSE "clone_try_into")
    /\ cvresult = NoResult

\* What next_entry yields: a pair of key and value, or an error.
EntryItems == {OkItem(<<k, x>>) : k \in Vals, x \in Vals} \cup {ErrItem(e) : e \in ElemErrors}

InitCollect ==
    /\ mode = "collect"
    /\ DecodeIdle
    /\ EncodeIdle
    /\ BytesIdle
    /\ RoundTripIdle
    /\ SnapshotIdle
    /\ FoldIdle
    /\ HumanIdle
    /\ WithEncodingIdle
    /\ ConvertIdle
    /\ CallsIdle
    /\ cKind \in {"Seq", "Map"}
    /\ cSource \in (IF cKind = "Seq" THEN SeqsUpTo(SourceItems, MaxLen)
                    ELSE SeqsUpTo(EntryItems, MaxN))
    /\ cRequests = 0
    /\ collected = <<>>
    /\ cpc = "collect"
    /\ cresult = NoResult

InitCalls ==
    /\ mode = "calls"
    /\ DecodeIdle
    /\ EncodeIdle
    /\ BytesIdle
    /\ RoundTripIdle
    /\ SnapshotIdle
    /\ FoldIdle
    /\ HumanIdle
    /\ WithEncodingIdle
    /\ ConvertIdle
    /\ CollectIdle
    /\ calls = <<>>

Init ==
    \/ InitDecode
    \/ InitEncode
    \/ InitBytes
    \/ InitRoundTrip
    \/ InitSnapshot
    \/ InitFold
    \/ InitHuman
    \/ InitWithEncoding
    \/ InitConvert
    \/ InitCollect
    \/ InitCalls

Next ==
    \/ New
    \/ FillSlotsExhausted
    \/ FillSourceExhausted
    \/ FillElementError
    \/ FillWrite
    \/ FillShort
    \/ FillMoveOut
    \/ Drop
    \/ OwnerRelease
    \/ SerializeTuple
    \/ SerializeTupleFails
    \/ SerializeElement
    \/ SerializeElementFails
    \/ SerializeEnd
    \/ SerializeEndFails
    \/ DeserializeByteArray
    \/ DeserializeSlice
    \/ DeserializeRefArray
    \/ DeserializeCow
    \/ DeserializeVecBlob
    \/ VecSeqReserve
    \/ VecSeqPush
    \/ VecSeqError
    \/ VecSeqEnd
    \/ ByteVecConvert
    \/ RoundTripSerialize
    \/ RoundTripDeserialize
    \/ SnapshotAcquire
    \/ CellGet
    \/ SnapshotInner
    \/ SnapshotDecode
    \/ UseDecoded
    \/ HolderLock
    \/ HolderBlocks
    \/ HolderWakes
    \/ HolderRead
    \/ HolderStore
    \/ HolderUnlock
    \/ HolderPanics
    \/ SelfStore
    \/ SelfRelease
    \/ FoldBegin
    \/ FoldStep
    \/ FoldOverflowPanics
    \/ FoldElementError
    \/ FoldEnd
    \/ HumanOrSerializeCall
    \/ HumanOrDeserializeCall
    \/ HumanOrBranch
    \/ HumanOrF
    \/ HumanOrG
    \/ WithEncodingFrom
    \/ WithEncodingIntoInner
    \/ WithEncodingSerialize
    \/ WithEncodingDeserialize
    \/ TryFromInner
    \/ TryFromConvert
    \/ TryIntoConvert
    \/ TryIntoInner
    \/ CollectPush
    \/ CollectError
    \/ CollectEnd
    \/ CallSerialize
    \/ CallDeserialize

Spec == Init /\ [][Next]_vars

=============================================================================
